---------------------------- MODULE Spec2Model ----------------------------
(***************************************************************************)
(* A model of the software rasterizer of sinclairzx81/black:               *)
(*   black-raster/src/raster.rs   Raster::triangle and its helpers         *)
(*   black-raster/src/depth.rs    DepthBuffer                              *)
(*   black-codegen/src/interpolate.rs  the derived Interpolate impl        *)
(*   example/src/helpers/window.rs     the TargetBuffer implementation     *)
(*   example/src/main.rs               the frame loop                      *)
(*                                                                         *)
(* All arithmetic the code does in f32 is done here in IEEE-754 binary32   *)
(* (round to nearest, ties to even), built from integers that stay below   *)
(* 2^31.                                                                   *)
(***************************************************************************)
EXTENDS Integers, Sequences, FiniteSets, TLC

(***************************************************************************)
(* f32.  A value is a record [k, s, m, e]:                                 *)
(*   k = "fin": (-1)^s * m * 2^e, with 2^23 <= m < 2^24 and                *)
(*              -149 <= e <= 104 (normal), or m < 2^23 and e = -149        *)
(*              (subnormal and zero);                                      *)
(*   k = "inf": (-1)^s * infinity;   k = "nan": a NaN.                     *)
(***************************************************************************)
MantBits == 24
MinExp == -149
MaxExp == 104

\* 2^n, 0 <= n <= 30.
Pow2Table == [n \in 0..30 |-> 2^n]

Pow2(n) == Pow2Table[n]

Hidden == Pow2(MantBits - 1)

MantLimit == Pow2(MantBits)

NaN == [k |-> "nan", s |-> 0, m |-> 0, e |-> 0]

Inf(s) == [k |-> "inf", s |-> s, m |-> 0, e |-> 0]

Fin(s, m, e) == [k |-> "fin", s |-> s, m |-> m, e |-> e]

Zero(s) == Fin(s, 0, MinExp)

IsNaN(a) == a.k = "nan"

IsInf(a) == a.k = "inf"

IsFin(a) == a.k = "fin"

IsZero(a) == a.k = "fin" /\ a.m = 0

XorSign(a, b) == IF a.s = b.s THEN 0 ELSE 1

Min(a, b) == IF a <= b THEN a ELSE b

Max(a, b) == IF a >= b THEN a ELSE b

\* The number of bits of n, 0 <= n < 2^31.
BitLenTable ==
    [n \in 0..255 |-> IF n = 0 THEN 0
                      ELSE CHOOSE l \in 1..8 : n >= 2^(l - 1) /\ n < 2^l]

BitLen(n) == IF n < 256 THEN BitLenTable[n]
             ELSE IF n < 65536 THEN 8 + BitLenTable[n \div 256]
             ELSE IF n < 16777216 THEN 16 + BitLenTable[n \div 65536]
             ELSE 24 + BitLenTable[n \div 16777216]

\* n shifted right by k >= 0 bits (k may exceed the width of n).
Shr(n, k) == IF k >= 31 THEN 0 ELSE n \div Pow2(k)

\* The bits of n a right shift by k >= 0 drops.
Dropped(n, k) == IF k >= 31 THEN n ELSE n % Pow2(k)

\* (-1)^s * m * 2^ex, or the infinity it overflows to.
Packed(s, m, ex) == IF ex > MaxExp THEN Inf(s) ELSE Fin(s, m, ex)

\* A rounded mantissa m1 <= 2^24, the carry out of it moved to the exponent.
Carried(s, m1, ex) ==
    IF m1 = MantLimit THEN Packed(s, Hidden, ex + 1) ELSE Packed(s, m1, ex)

\* q rounded by its guard bit and the bits below it: up when the guard bit
\* is set and either a lower bit is or q is odd.
Rounded(s, q, guard, rest, ex) ==
    Carried(s, IF guard = 1 /\ (rest \/ (q % 2) = 1) THEN q + 1 ELSE q, ex)

\* M, of l bits, rounded after a right shift by k bits.
RoundBy(s, M, e, sticky, l, k) ==
    IF k <= 0 THEN Packed(s, M * Pow2(0 - k), e + k)
    ELSE Rounded(s, Shr(M, k - 1) \div 2,
                 IF k > l + 1 THEN 0 ELSE Shr(M, k - 1) % 2,
                 sticky \/ Dropped(M, k - 1) # 0,
                 e + k)

\* M, of l bits, rounded to 24 bits, or to fewer at the smallest exponent.
RoundAt(s, M, e, sticky, l) ==
    RoundBy(s, M, e, sticky, l, Max(l - MantBits, MinExp - e))

\* Round to nearest, ties to even: the f32 nearest to (-1)^s * (M + d) * 2^e,
\* where 0 <= M < 2^31 and 0 < d < 1 when sticky, d = 0 otherwise.  A sticky
\* value comes with M >= 2^25, so that the rounding bit is a bit of M.
RoundPack(s, M, e, sticky) ==
    IF M = 0 /\ ~sticky THEN Zero(s)
    ELSE RoundAt(s, M, e, sticky, BitLen(M))

\* A finite non-zero value with its mantissa shifted up to 24 bits (the
\* exponent may then lie below MinExp: an operand form, not a value).
Normalized(a) ==
    LET sh == MantBits - BitLen(a.m)
    IN [m |-> a.m * Pow2(sh), e |-> a.e - sh]

FNeg(a) == IF IsNaN(a) THEN NaN ELSE [a EXCEPT !.s = 1 - a.s]

\* lo.m aligned to exponent ex (>= lo.e - 5), the bits shifted out jammed
\* into the last bit.
Aligned(m, sh) ==
    IF sh <= 0 THEN m * Pow2(0 - sh)
    ELSE IF Dropped(m, sh) # 0
         THEN ((Shr(m, sh) \div 2) * 2) + 1
         ELSE Shr(m, sh)

GuardBits == 5

\* X * 2^ex of sign hs plus Y * 2^ex of sign ls.
FAddAligned(hs, ls, X, Y, ex) ==
    IF hs = ls THEN RoundPack(hs, X + Y, ex, FALSE)
    ELSE IF X = Y THEN Zero(0)
    ELSE IF X > Y THEN RoundPack(hs, X - Y, ex, FALSE)
    ELSE RoundPack(ls, Y - X, ex, FALSE)

\* hi + lo, hi.e >= lo.e.
FAddOrdered(hi, lo) ==
    FAddAligned(hi.s, lo.s, hi.m * Pow2(GuardBits),
                Aligned(lo.m, (hi.e - lo.e) - GuardBits), hi.e - GuardBits)

FAddFinite(a, b) ==
    IF a.e >= b.e THEN FAddOrdered(a, b) ELSE FAddOrdered(b, a)

\* a + b
FAdd(a, b) ==
    IF IsNaN(a) \/ IsNaN(b) THEN NaN
    ELSE IF IsInf(a) THEN (IF IsInf(b) /\ a.s # b.s THEN NaN ELSE a)
    ELSE IF IsInf(b) THEN b
    ELSE IF IsZero(a) /\ IsZero(b) THEN (IF a.s = b.s THEN a ELSE Zero(0))
    ELSE IF IsZero(a) THEN b
    ELSE IF IsZero(b) THEN a
    ELSE FAddFinite(a, b)

\* a - b
FSub(a, b) == FAdd(a, FNeg(b))

LimbBits == 12

\* The product of two 24-bit mantissas as <<H, L>>: H * 2^24 + L.
MulWide(m1, m2) ==
    LET B    == Pow2(LimbBits)
        a1   == m1 \div B
        b1   == m1 % B
        a2   == m2 \div B
        b2   == m2 % B
        low  == b1 * b2
        mid  == (a1 * b2) + (a2 * b1) + (low \div B)
        H    == (a1 * a2) + (mid \div B)
        L    == ((mid % B) * B) + (low % B)
    IN <<H, L>>

MulKeep == 6

\* The product <<H, L>> of two 24-bit mantissas, times 2^e, rounded.
FMulWide(s, p, e) ==
    RoundPack(s, (p[1] * Pow2(MulKeep)) + (p[2] \div Pow2(MantBits - MulKeep)),
              e + (MantBits - MulKeep), (p[2] % Pow2(MantBits - MulKeep)) # 0)

\* x * y for two normalized operands, with the sign s.
FMulNormal(s, x, y) == FMulWide(s, MulWide(x.m, y.m), x.e + y.e)

\* a * b
FMul(a, b) ==
    IF IsNaN(a) \/ IsNaN(b) THEN NaN
    ELSE IF IsInf(a) \/ IsInf(b)
         THEN (IF IsZero(a) \/ IsZero(b) THEN NaN ELSE Inf(XorSign(a, b)))
    ELSE IF IsZero(a) \/ IsZero(b) THEN Zero(XorSign(a, b))
    ELSE FMulNormal(XorSign(a, b), Normalized(a), Normalized(b))

DivChunk == 7

\* One step of long division: DivChunk more bits of the quotient of r / d.
DivStep(qr, d) ==
    LET r == qr[2] * Pow2(DivChunk)
    IN <<(qr[1] * Pow2(DivChunk)) + (r \div d), r % d>>

\* The quotient and remainder qr of the long division, times 2^e, rounded.
FDivQuotient(s, qr, e) == RoundPack(s, qr[1], e, qr[2] # 0)

\* x / y for two normalized operands, with the sign s.
FDivNormal(s, x, y) ==
    FDivQuotient(s,
                 DivStep(DivStep(DivStep(DivStep(<<x.m \div y.m, x.m % y.m>>,
                                                 y.m), y.m), y.m), y.m),
                 (x.e - y.e) - 4 * DivChunk)

\* a / b
FDiv(a, b) ==
    IF IsNaN(a) \/ IsNaN(b) THEN NaN
    ELSE IF IsInf(a) THEN (IF IsInf(b) THEN NaN ELSE Inf(XorSign(a, b)))
    ELSE IF IsInf(b) THEN Zero(XorSign(a, b))
    ELSE IF IsZero(b) THEN (IF IsZero(a) THEN NaN ELSE Inf(XorSign(a, b)))
    ELSE IF IsZero(a) THEN Zero(XorSign(a, b))
    ELSE FDivNormal(XorSign(a, b), Normalized(a), Normalized(b))

\* The order of two finite values of the same sign, by magnitude.
MagLess(a, b) == a.e < b.e \/ (a.e = b.e /\ a.m < b.m)

\* a < b
FLt(a, b) ==
    IF IsNaN(a) \/ IsNaN(b) THEN FALSE
    ELSE IF IsZero(a) /\ IsZero(b) THEN FALSE
    ELSE IF a.s # b.s THEN a.s = 1
    ELSE IF IsInf(a) THEN (a.s = 1 /\ ~IsInf(b))
    ELSE IF IsInf(b) THEN b.s = 0
    ELSE IF a.s = 0 THEN MagLess(a, b) ELSE MagLess(b, a)

\* a > b
FGt(a, b) == FLt(b, a)

\* a == b
FEq(a, b) ==
    IF IsNaN(a) \/ IsNaN(b) THEN FALSE
    ELSE (IsZero(a) /\ IsZero(b)) \/ a = b

\* a >= b
FGe(a, b) == FGt(a, b) \/ FEq(a, b)

\* n as f32, |n| < 2^31 (rounded when |n| >= 2^24).
FromInt(n) ==
    RoundPack(IF n >= 0 THEN 0 ELSE 1, IF n >= 0 THEN n ELSE 0 - n, 0, FALSE)

\* n / d as the f32 the division of the two f32 values gives.
Ratio(n, d) == FDiv(FromInt(n), FromInt(d))

\* The literals of the code: 0.0, 1.0, 0.5, 255.0.
F0 == FromInt(0)

F1 == FromInt(1)

FHalf == Ratio(1, 2)

F255 == FromInt(255)

\* The integer part q and the fraction bits r of |a|, floored with a's sign.
Floored(s, q, r) ==
    FromInt(IF s = 0 THEN q ELSE IF r # 0 THEN 0 - (q + 1) ELSE 0 - q)

\* f32::floor
FFloor(a) ==
    IF ~IsFin(a) \/ IsZero(a) \/ a.e >= 0 THEN a
    ELSE Floored(a.s, Shr(a.m, 0 - a.e), Dropped(a.m, 0 - a.e))

I32Max == 2147483647
I32Min == -2147483647 - 1

\* `a as i32`: truncation towards zero, saturating, NaN to 0.
AsI32(a) ==
    IF IsNaN(a) THEN 0
    ELSE IF IsInf(a) THEN (IF a.s = 0 THEN I32Max ELSE I32Min)
    ELSE IF a.e > 7 /\ a.m # 0 /\ BitLen(a.m) + a.e > 31
         THEN (IF a.s = 0 THEN I32Max ELSE I32Min)
    ELSE IF a.e >= 0
         THEN (IF a.m = 0 THEN 0
               ELSE IF a.s = 0 THEN a.m * Pow2(a.e) ELSE 0 - a.m * Pow2(a.e))
    ELSE IF a.s = 0 THEN Shr(a.m, 0 - a.e) ELSE 0 - Shr(a.m, 0 - a.e)

\* std::f32::MAX
F32Max == Fin(0, MantLimit - 1, MaxExp)

\* `n as f32` for an i32 n.
I32ToF32(n) == IF n = I32Min THEN Fin(1, Hidden, 8) ELSE FromInt(n)

\* `a as u8`: truncation towards zero, saturating, NaN to 0.
AsU8(a) == Max(0, Min(255, AsI32(a)))

(***************************************************************************)
(* black-math: the two vector types the rasterizer uses.                   *)
(***************************************************************************)
Vec2(x, y) == [x |-> x, y |-> y]

Vec4(x, y, z, w) == [x |-> x, y |-> y, z |-> z, w |-> w]

(***************************************************************************)
(* DepthBuffer (depth.rs).  data is the Vec<f32>, cell n at data[n + 1].   *)
(***************************************************************************)
\* new allocating width rows of width cells.
DepthBuffer_new_square(width, height) ==
    [width |-> width, height |-> height,
     data |-> [n \in 1..(width * width) |-> Zero(0)]]

DepthBuffer_new(width, height) ==
    [width |-> width, height |-> height,
     data |-> [n \in 1..(width * height) |-> Zero(0)]]

\* clear stopping one cell short of the end.
DepthBuffer_clear_short(self) ==
    [self EXCEPT !.data = [n \in 1..Len(self.data) |->
                              IF n < Len(self.data) THEN F32Max ELSE self.data[n]]]

DepthBuffer_clear(self) ==
    [self EXCEPT !.data = [n \in 1..Len(self.data) |-> F32Max]]

\* The flat index with the rows height cells apart.
DepthIndex_height_stride(self, x, y) == x + y * self.height

\* The flat index get and set compute.
DepthIndex(self, x, y) == x + y * self.width

\* An index the Vec accepts; any other panics.
InRange(data, n) == n >= 0 /\ n < Len(data)

\* set indexing column-major.
DepthBuffer_set_column_major(self, x, y, z) ==
    [self EXCEPT !.data[y + x * self.height + 1] = z]

DepthBuffer_set(self, x, y, z) ==
    [self EXCEPT !.data[DepthIndex(self, x, y) + 1] = z]

\* get reading the cell of the transposed pixel.
DepthBuffer_get_transposed(self, x, y) == self.data[DepthIndex(self, y, x) + 1]

DepthBuffer_get(self, x, y) == self.data[DepthIndex(self, x, y) + 1]

(***************************************************************************)
(* The target (window.rs): Buffer, and Context's TargetBuffer impl.  A     *)
(* pixel is the u32 the transmute packs, kept as its four bytes, lowest    *)
(* first.                                                                  *)
(***************************************************************************)
Pixel0 == <<0, 0, 0, 0>>

Buffer_new(width, height) ==
    [width |-> width, height |-> height,
     data |-> [n \in 1..(width * height) |-> Pixel0]]

BufferIndex(self, x, y) == x + (y * self.width)

Buffer_set(self, x, y, c) ==
    [self EXCEPT !.data[BufferIndex(self, x, y) + 1] = c]

Context_clear(buffer) ==
    [buffer EXCEPT !.data = [n \in 1..Len(buffer.data) |-> Pixel0]]

Context_clamp(n) ==
    IF FLt(n, F0) THEN F0
    ELSE IF FGt(n, F1) THEN F1
    ELSE n

\* The four bytes Context::set packs from a colour.
PackColor(color) ==
    <<AsU8(FMul(Context_clamp(color.z), F255)),
      AsU8(FMul(Context_clamp(color.y), F255)),
      AsU8(FMul(Context_clamp(color.x), F255)),
      AsU8(FMul(Context_clamp(color.w), F255))>>

Target_width(buffer) == buffer.width

Target_height(buffer) == buffer.height

Target_set(buffer, x, y, color) == Buffer_set(buffer, x, y, PackColor(color))

(***************************************************************************)
(* The Interpolate impl the derive generates, for a Varying of one f32     *)
(* field, shade.                                                           *)
(***************************************************************************)
Interpolate_new == [shade |-> Zero(0)]

\* correct handing the varying back undivided.
Interpolate_correct_undivided(v, w) == v

Interpolate_correct(v, w) == [shade |-> FDiv(v.shade, w)]

Interpolate_interpolate(v0, v1, v2, w0, w1, w2, w) ==
    [shade |-> FDiv(FAdd(FAdd(FMul(w0, v0.shade), FMul(w1, v1.shade)),
                         FMul(w2, v2.shade)), w)]

(***************************************************************************)
(* The shader programs: a vertex is [position, shade]; the vertex program  *)
(* hands the vertex's shade to the varying and returns its position; the   *)
(* fragment program returns white when the uniform says so and the grey    *)
(* of the varying's shade otherwise.                                       *)
(***************************************************************************)
VertexMain(uniform, input, varying) ==
    [position |-> input.position,
     varying  |-> [varying EXCEPT !.shade = input.shade]]

White == Vec4(F1, F1, F1, F1)

FragmentMain(uniform, varying) ==
    IF uniform.white THEN White
    ELSE Vec4(varying.shade, varying.shade, varying.shade, F1)

(***************************************************************************)
(* Raster (raster.rs).  A call works on st: the two buffers, whether an    *)
(* indexing panic has ended the call, and a log of what the call did:      *)
(*   parts   the flat sub-triangles rendered, <<kind, p0, p1, p2>>         *)
(*   lines   the draw_line calls that pass the viewport check on y,        *)
(*           <<cur_x0, cur_x1, cur_y0>>                                    *)
(*   gets    the (x, y) passed to DepthBuffer::get                         *)
(*   sets    the (x, y) passed to DepthBuffer::set                         *)
(*   frags   the (x, y) the fragment program was invoked for               *)
(*   writes  the (x, y) passed to TargetBuffer::set                        *)
(*   calls   the calls of draw_line's loop body in the order they are      *)
(*           made, each [call, at] with the value read or passed:          *)
(*           depth.get (value), depth.set (value), interpolate (weights,   *)
(*           depth, varying), fragment.main (varying, color), target.set   *)
(*           (color)                                                       *)
(***************************************************************************)
Raster_edge(v0, v1, v2) ==
    FSub(FMul(FSub(v2.x, v0.x), FSub(v1.y, v0.y)),
         FMul(FSub(v2.y, v0.y), FSub(v1.x, v0.x)))

\* The weights with the second taken over the edge from the first position
\* to the third.
WeightsAt_reversed_edge(c, edge, p) ==
    <<FDiv(Raster_edge(c[2], c[3], p), edge),
      FDiv(Raster_edge(c[1], c[3], p), edge),
      FDiv(Raster_edge(c[1], c[2], p), edge)>>

\* The three barycentric weights draw_line computes at the point p.
WeightsAt(c, edge, p) ==
    <<FDiv(Raster_edge(c[2], c[3], p), edge),
      FDiv(Raster_edge(c[3], c[1], p), edge),
      FDiv(Raster_edge(c[1], c[2], p), edge)>>

\* The three barycentric weights draw_line computes at pixel (x, y).
Weights(c, edge, x, y) == WeightsAt(c, edge, Vec2(I32ToF32(x), I32ToF32(y)))

\* calculated_depth
CalculatedDepth(w, cz) ==
    FAdd(FAdd(FMul(w[1], cz[1]), FMul(w[2], cz[2])), FMul(w[3], cz[3]))

\* The depth test with the comparison turned round.
DepthTest_less(calculated_depth, stored) == FLt(calculated_depth, stored)

\* The depth test letting a fragment of the stored depth pass.
DepthTest_non_strict(calculated_depth, stored) == FGe(calculated_depth, stored)

\* The depth test of draw_line.
DepthTest(calculated_depth, stored) == FGt(calculated_depth, stored)

\* target.set(x, cur_y0, color)
WritePixel(st, x, y, color) ==
    IF ~InRange(st.target.data, BufferIndex(st.target, x, y))
    THEN [st EXCEPT !.writes = Append(@, <<x, y>>),
                    !.calls = Append(@, [call |-> "target.set", at |-> <<x, y>>,
                                         color |-> color]),
                    !.panic = TRUE]
    ELSE [st EXCEPT !.writes = Append(@, <<x, y>>),
                    !.calls = Append(@, [call |-> "target.set", at |-> <<x, y>>,
                                         color |-> color]),
                    !.target = Target_set(@, x, y, color)]

\* let color = fragment.main(uniform, &varying), and what follows it.
ShadeColor(st, x, y, varying, color) ==
    WritePixel([st EXCEPT !.frags = Append(@, <<x, y>>),
                          !.calls = Append(@, [call |-> "fragment.main", at |-> <<x, y>>,
                                               varying |-> varying, color |-> color])],
               x, y, color)

\* let varying = TVarying::interpolate(..), and what follows it.
ShadeVarying(st, ctx, x, y, w, cd, varying) ==
    ShadeColor([st EXCEPT !.calls = Append(@, [call |-> "interpolate", at |-> <<x, y>>,
                                               weights |-> w, depth |-> cd,
                                               varying |-> varying])],
               x, y, varying, FragmentMain(ctx.uniform, varying))

\* depth.set(x, cur_y0, calculated_depth) left out: the call is logged, the
\* cell is not written.
DepthStored_not_stored(st, x, y, cd) ==
    [st EXCEPT !.sets = Append(@, <<x, y>>),
               !.calls = Append(@, [call |-> "depth.set", at |-> <<x, y>>, value |-> cd])]

\* depth.set(x, cur_y0, calculated_depth)
DepthStored(st, x, y, cd) ==
    [st EXCEPT !.depth = DepthBuffer_set(@, x, y, cd),
               !.sets = Append(@, <<x, y>>),
               !.calls = Append(@, [call |-> "depth.set", at |-> <<x, y>>, value |-> cd])]

\* The body of the depth test's if without depth.set.
ShadePixel_depth_not_stored(st, ctx, x, y, w, cd) ==
    ShadeVarying(DepthStored_not_stored(st, x, y, cd), ctx, x, y, w, cd,
                 Interpolate_interpolate(ctx.varying[1], ctx.varying[2],
                                         ctx.varying[3], w[1], w[2], w[3], cd))

\* The body of the depth test's if with depth.set after target.set.
ShadePixel_depth_set_last(st, ctx, x, y, w, cd) ==
    DepthStored(ShadeVarying(st, ctx, x, y, w, cd,
                             Interpolate_interpolate(ctx.varying[1], ctx.varying[2],
                                                     ctx.varying[3], w[1], w[2], w[3], cd)),
                x, y, cd)

\* The body of the depth test's if, statement by statement: depth.set,
\* interpolate, fragment.main, target.set.
ShadePixel(st, ctx, x, y, w, cd) ==
    ShadeVarying(DepthStored(st, x, y, cd), ctx, x, y, w, cd,
                 Interpolate_interpolate(ctx.varying[1], ctx.varying[2],
                                         ctx.varying[3], w[1], w[2], w[3], cd))

\* depth.get(x, cur_y0) on a cell outside the buffer.
DepthReadPanicked(st, x, y) ==
    [st EXCEPT !.gets = Append(@, <<x, y>>),
               !.calls = Append(@, [call |-> "depth.get", at |-> <<x, y>>]),
               !.panic = TRUE]

\* depth.get(x, cur_y0)
DepthRead(st, x, y) ==
    [st EXCEPT !.gets = Append(@, <<x, y>>),
               !.calls = Append(@, [call |-> "depth.get", at |-> <<x, y>>,
                                    value |-> DepthBuffer_get(st.depth, x, y)])]

\* The fragment shaded whatever the depth test says.
ResolvePixel_untested(st, ctx, x, y, w, cd) ==
    IF ~InRange(st.depth.data, DepthIndex(st.depth, x, y))
    THEN DepthReadPanicked(st, x, y)
    ELSE ShadePixel(DepthRead(st, x, y), ctx, x, y, w, cd)

\* The depth test on a fragment of depth cd, and what follows it.
ResolvePixel(st, ctx, x, y, w, cd) ==
    IF ~InRange(st.depth.data, DepthIndex(st.depth, x, y))
    THEN DepthReadPanicked(st, x, y)
    ELSE IF ~DepthTest(cd, DepthBuffer_get(st.depth, x, y))
    THEN DepthRead(st, x, y)
    ELSE ShadePixel(DepthRead(st, x, y), ctx, x, y, w, cd)

\* The fragment of weights w.
WeighPixel(st, ctx, x, y, w) ==
    ResolvePixel(st, ctx, x, y, w, CalculatedDepth(w, ctx.cz))

\* The body of draw_line's loop for one x.
DrawPixel(st, ctx, edge, x, y) ==
    IF st.panic THEN st
    ELSE WeighPixel(st, ctx, x, y, Weights(ctx.clippos, edge, x, y))

\* for x in minx..=maxx
RECURSIVE Scanline(_, _, _, _, _, _)
Scanline(st, ctx, edge, x, maxx, y) ==
    IF x > maxx \/ st.panic THEN st
    ELSE Scanline(DrawPixel(st, ctx, edge, x, y), ctx, edge, x + 1, maxx, y)

\* The rows draw_line accepts.
RowInViewport(target, cur_y0) == ~(cur_y0 < 0 \/ cur_y0 >= Target_height(target))

\* minx
SpanMin(target, cur_x0, cur_x1) == Max(0, Min(cur_x0, cur_x1))

\* maxx without the clamp to the last column.
SpanMaxUnclamped(target, cur_x0, cur_x1) == Max(cur_x0, cur_x1)

\* maxx
SpanMax(target, cur_x0, cur_x1) == Min(Target_width(target) - 1, Max(cur_x0, cur_x1))

Raster_draw_line(st, ctx, cur_x0, cur_x1, cur_y0) ==
    IF st.panic \/ ~RowInViewport(st.target, cur_y0) THEN st
    ELSE Scanline([st EXCEPT !.lines = Append(@, <<cur_x0, cur_x1, cur_y0>>)],
                  ctx, Raster_edge(ctx.clippos[1], ctx.clippos[2], ctx.clippos[3]),
                  SpanMin(st.target, cur_x0, cur_x1),
                  SpanMax(st.target, cur_x0, cur_x1), cur_y0)

\* The for loop of render_bottom_flat_triangle from row y on: rows y..=last,
\* ascending, cur_x0 and cur_x1 stepped by the slopes after each row.  A row
\* outside the viewport changes nothing but cur_x0 and cur_x1, so the rows
\* past the viewport are not walked, and the rows before it are walked in
\* one step once cur_x0 and cur_x1 no longer change (an infinite or NaN
\* operand).
RECURSIVE BottomFlatRows(_, _, _, _, _, _, _, _)
BottomFlatRows(st, ctx, y, last, cur_x0, cur_x1, slope_0, slope_1) ==
    IF y > last \/ st.panic THEN st
    ELSE IF y >= Target_height(st.target) THEN st
    ELSE IF y < 0 /\ FAdd(cur_x0, slope_0) = cur_x0 /\ FAdd(cur_x1, slope_1) = cur_x1
         THEN (IF last < 0 THEN st
               ELSE BottomFlatRows(st, ctx, 0, last, cur_x0, cur_x1, slope_0, slope_1))
    ELSE BottomFlatRows(Raster_draw_line(st, ctx, AsI32(cur_x0), AsI32(cur_x1), y),
                        ctx, y + 1, last,
                        FAdd(cur_x0, slope_0), FAdd(cur_x1, slope_1), slope_0, slope_1)

\* A panic unwinds out of run_fragment: after one, the function is not
\* entered.
Raster_render_bottom_flat_triangle(st, ctx, p0, p1, p2) ==
    IF st.panic THEN st
    ELSE BottomFlatRows([st EXCEPT !.parts = Append(@, <<"bottom_flat", p0, p1, p2>>)],
                        ctx, AsI32(p0.y), AsI32(p1.y), p0.x, p0.x,
                        FDiv(FSub(p1.x, p0.x), FSub(p1.y, p0.y)),
                        FDiv(FSub(p2.x, p0.x), FSub(p2.y, p0.y)))

\* The for loop of render_top_flat_triangle from row y on: rows first..=y,
\* descending, cur_x0 and cur_x1 stepped back by the slopes after each row
\* (shortened as in BottomFlatRows).
RECURSIVE TopFlatRows(_, _, _, _, _, _, _, _)
TopFlatRows(st, ctx, y, first, cur_x0, cur_x1, slope_0, slope_1) ==
    IF y < first \/ st.panic THEN st
    ELSE IF y < 0 THEN st
    ELSE IF y >= Target_height(st.target)
            /\ FSub(cur_x0, slope_0) = cur_x0 /\ FSub(cur_x1, slope_1) = cur_x1
         THEN (IF first >= Target_height(st.target) THEN st
               ELSE TopFlatRows(st, ctx, Target_height(st.target) - 1, first,
                                cur_x0, cur_x1, slope_0, slope_1))
    ELSE TopFlatRows(Raster_draw_line(st, ctx, AsI32(cur_x0), AsI32(cur_x1), y),
                     ctx, y - 1, first,
                     FSub(cur_x0, slope_0), FSub(cur_x1, slope_1), slope_0, slope_1)

\* After a panic in the bottom-flat half of a split triangle the function is
\* not entered.
Raster_render_top_flat_triangle(st, ctx, p0, p1, p2) ==
    IF st.panic THEN st
    ELSE TopFlatRows([st EXCEPT !.parts = Append(@, <<"top_flat", p0, p1, p2>>)],
                     ctx, AsI32(p2.y), AsI32(p1.y), p2.x, p2.x,
                     FDiv(FSub(p2.x, p0.x), FSub(p2.y, p0.y)),
                     FDiv(FSub(p2.x, p1.x), FSub(p2.y, p1.y)))

\* The three conditional swaps of run_fragment.
SwapIf(c, t, i, j) == IF c THEN [t EXCEPT ![i] = t[j], ![j] = t[i]] ELSE t

\* One conditional swap: positions i and j, when the first lies below.
Ordered(t, i, j) == SwapIf(FGt(t[i].y, t[j].y), t, i, j)

\* The first two swaps alone.
OrderedPositions_two_swaps(clippos) == Ordered(Ordered(clippos, 1, 2), 2, 3)

OrderedPositions(clippos) == Ordered(Ordered(Ordered(clippos, 1, 2), 2, 3), 1, 2)

\* ordered_position_3
SplitPosition(o) ==
    Vec2(I32ToF32(AsI32(
            FAdd(o[1].x,
                 FMul(FDiv(FSub(o[2].y, o[1].y), FSub(o[3].y, o[1].y)),
                      FSub(o[3].x, o[1].x))))),
         o[2].y)

\* The two halves of a triangle split at o3: the top-flat half is rendered
\* only when the bottom-flat half returned.
RenderSplit(st, ctx, o, o3) ==
    Raster_render_top_flat_triangle(
        Raster_render_bottom_flat_triangle(st, ctx, o[1], o[2], o3),
        ctx, o[2], o3, o[3])

\* The dispatch of run_fragment on the ordered positions o.
RenderOrdered(st, ctx, o) ==
    IF FEq(o[2].y, o[3].y)
    THEN Raster_render_bottom_flat_triangle(st, ctx, o[1], o[2], o[3])
    ELSE IF FEq(o[1].y, o[2].y)
    THEN Raster_render_top_flat_triangle(st, ctx, o[1], o[2], o[3])
    ELSE RenderSplit(st, ctx, o, SplitPosition(o))

Raster_run_fragment(st, ctx) == RenderOrdered(st, ctx, OrderedPositions(ctx.clippos))

\* The near-plane test on the first vertex alone.
NearRejectFirst(p0, p1, p2) == FLt(p0.z, F0)

\* The near-plane test of Raster::triangle.
NearReject(p0, p1, p2) ==
    FLt(p0.z, F0) \/ FLt(p1.z, F0) \/ FLt(p2.z, F0)

\* The screen position Raster::triangle computes from a clip position.
ScreenPosition(p, width, height) ==
    Vec2(FFloor(FAdd(FMul(FDiv(p.x, p.w), width), FMul(width, FHalf))),
         FFloor(FAdd(FMul(FDiv(FNeg(p.y), p.w), height), FMul(height, FHalf))))

\* The winding test of Raster::triangle.
FrontFacing(c0, c1, c2) == FGe(Raster_edge(c0, c1, c2), F0)

NoLog == [panic |-> FALSE, parts |-> <<>>, lines |-> <<>>, gets |-> <<>>,
          sets |-> <<>>, frags |-> <<>>, writes |-> <<>>, calls |-> <<>>]

\* Raster::triangle from the winding test on: pos the clip positions,
\* varyings the three varyings and clippos the screen positions.
CullOrRender(st, uniform, pos, varyings, clippos) ==
    IF ~FrontFacing(clippos[1], clippos[2], clippos[3])
    THEN st @@ [stage |-> "backface",
                divides |-> <<pos[1].w, pos[2].w, pos[3].w>>, clippos |-> clippos]
    ELSE Raster_run_fragment(st,
             [uniform |-> uniform,
              varying |-> <<Interpolate_correct(varyings[1], pos[1].w),
                            Interpolate_correct(varyings[2], pos[2].w),
                            Interpolate_correct(varyings[3], pos[3].w)>>,
              clippos |-> clippos,
              cz      |-> <<FDiv(F1, pos[1].w), FDiv(F1, pos[2].w), FDiv(F1, pos[3].w)>>])
         @@ [stage |-> "rasterized",
             divides |-> <<pos[1].w, pos[2].w, pos[3].w>>, clippos |-> clippos]

\* Raster::triangle from the near-plane test on.
RejectOrMap(st, target, uniform, pos, varyings) ==
    IF NearReject(pos[1], pos[2], pos[3])
    THEN st @@ [stage |-> "near_reject", divides |-> <<>>, clippos |-> <<>>]
    ELSE CullOrRender(st, uniform, pos, varyings,
             <<ScreenPosition(pos[1], I32ToF32(Target_width(target)),
                              I32ToF32(Target_height(target))),
               ScreenPosition(pos[2], I32ToF32(Target_width(target)),
                              I32ToF32(Target_height(target))),
               ScreenPosition(pos[3], I32ToF32(Target_width(target)),
                              I32ToF32(Target_height(target)))>>)

\* Raster::triangle on what the three runs r of the vertex program returned.
Shaded(depth, target, uniform, calls, r) ==
    RejectOrMap([depth |-> depth, target |-> target, vertexCalls |-> calls] @@ NoLog,
                target, uniform,
                <<r[1].position, r[2].position, r[3].position>>,
                <<r[1].varying, r[2].varying, r[3].varying>>)

\* Raster::triangle handing each run of the vertex program the varying
\* the run before it wrote.
Raster_triangle_shared_varying(depth, target, uniform, vertex_0, vertex_1, vertex_2) ==
    Shaded(depth, target, uniform,
           <<<<vertex_0, Interpolate_new>>,
             <<vertex_1, VertexMain(uniform, vertex_0, Interpolate_new).varying>>,
             <<vertex_2, VertexMain(uniform, vertex_1, Interpolate_new).varying>>>>,
           <<VertexMain(uniform, vertex_0, Interpolate_new),
             VertexMain(uniform, vertex_1, Interpolate_new),
             VertexMain(uniform, vertex_2, Interpolate_new)>>)

\* Raster::triangle.  The result is the st the call ends with, and
\*   vertexCalls  the vertices the vertex program was run on, with the
\*                varying each run was handed
\*   stage        where the call ended: "near_reject", "backface" or
\*                "rasterized"
\*   divides      the w each perspective divide divided by
\*   clippos      the three screen positions, once computed
Raster_triangle(depth, target, uniform, vertex_0, vertex_1, vertex_2) ==
    Shaded(depth, target, uniform,
           <<<<vertex_0, Interpolate_new>>, <<vertex_1, Interpolate_new>>,
             <<vertex_2, Interpolate_new>>>>,
           <<VertexMain(uniform, vertex_0, Interpolate_new),
             VertexMain(uniform, vertex_1, Interpolate_new),
             VertexMain(uniform, vertex_2, Interpolate_new)>>)

(***************************************************************************)
(* The program: a target and a depth buffer of one size, a uniform, and    *)
(* the calls main.rs makes on them in its frame loop: Context::clear,      *)
(* DepthBuffer::clear and Raster::triangle on three vertices of the mesh.  *)
(*   last  the last call: its name, for a triangle its arguments, the two  *)
(*         buffers as they were before it, the log of what it did and      *)
(*         whether the call before it was a triangle call with the same    *)
(*         arguments; and the name of the call before it                   *)
(*   ops   the number of calls made                                        *)
(***************************************************************************)
VARIABLES depth, target, uniform, last, ops

vars == <<depth, target, uniform, last, ops>>

\* The bounds of the model: the calls of one run of the frame loop, and the
\* clip coordinates of the vertices in quarters (the edge of the viewport
\* lies at 2 quarters).
MaxOps == 3
GridMax == 2
Far == 3

Uniforms == {[white |-> TRUE], [white |-> FALSE]}

\* A vertex at clip position (nx/4, ny/4, z, w), its shade set by its place.
Vertex(nx, ny, z, w) ==
    [position |-> Vec4(Ratio(nx, 4), Ratio(ny, 4), FromInt(z), FromInt(w)),
     shade |-> Ratio(nx + ny + 2 * (Far + 1), 4 * (Far + 1))]

Panicked == last.op = "triangle" /\ last.log.panic

\* The buffers as main.rs constructs them, both of the one size.
Constructed(size) ==
    /\ depth = DepthBuffer_new(size[1], size[2])
    /\ target = Buffer_new(size[1], size[2])
    /\ last = [op |-> "new", prev |-> "none"]
    /\ ops = 0

\* context.clear(0x000000)
ContextClear ==
    /\ ops < MaxOps /\ ~Panicked
    /\ target' = Context_clear(target)
    /\ last' = [op |-> "context_clear", prev |-> last.op]
    /\ ops' = ops + 1
    /\ UNCHANGED <<depth, uniform>>

\* depth.clear()
DepthClear ==
    /\ ops < MaxOps /\ ~Panicked
    /\ depth' = DepthBuffer_clear(depth)
    /\ last' = [op |-> "depth_clear", prev |-> last.op]
    /\ ops' = ops + 1
    /\ UNCHANGED <<target, uniform>>

\* The log of a call: its result without the two buffers.
LogOf(r) == [f \in (DOMAIN r) \ {"depth", "target"} |-> r[f]]

\* Raster::triangle(&VertexShader, &FragmentShader, &mut depth, &mut context,
\*                  &uniform, v0, v1, v2)
Triangle(v0, v1, v2) ==
    /\ ~Panicked
    /\ LET r == Raster_triangle(depth, target, uniform, v0, v1, v2)
       IN /\ depth' = r.depth
          /\ target' = r.target
          /\ last' = [op |-> "triangle", prev |-> last.op,
                      args |-> <<v0, v1, v2>>,
                      before |-> [depth |-> depth, target |-> target],
                      repeat |-> (last.op = "triangle" /\ last.args = <<v0, v1, v2>>),
                      log |-> LogOf(r)]
    /\ ops' = ops + 1
    /\ UNCHANGED uniform

(***************************************************************************)
(* Spec: the frame loop of main.rs on a 4x4 target, drawing the triangles  *)
(* of a mesh (a vertex list and an index list) in any order.               *)
(***************************************************************************)
MeshSize == <<4, 4>>

\* geometry.vertices
MeshVertices ==
    <<Vertex(0 - GridMax, GridMax, 1, 1),
      Vertex(0 - GridMax, 0 - GridMax, 1, 1),
      Vertex(GridMax, GridMax, 1, 1),
      Vertex(-1, -1, 1, 1),
      Vertex(1, -1, 1, 1),
      Vertex(1, 1, 1, 2),
      Vertex(0 - 2 * GridMax, 2 * GridMax, 1, 2),
      Vertex(0, 0, -1, 1),
      Vertex(2 * GridMax, 2 * GridMax, 1, 2)>>

\* geometry.indices, in threes.
MeshIndices ==
    <<<<1, 2, 3>>, <<1, 3, 2>>, <<1, 4, 5>>, <<7, 2, 9>>,
      <<1, 5, 3>>, <<1, 5, 6>>, <<4, 4, 5>>, <<8, 2, 3>>>>

Init ==
    /\ Constructed(MeshSize)
    /\ uniform \in Uniforms

DrawMesh ==
    /\ ops < MaxOps
    /\ \E n \in 1..Len(MeshIndices) :
          Triangle(MeshVertices[MeshIndices[n][1]], MeshVertices[MeshIndices[n][2]],
                   MeshVertices[MeshIndices[n][3]])

Next == ContextClear \/ DepthClear \/ DrawMesh

Spec == Init /\ [][Next]_vars

(***************************************************************************)
(* SpecDraw: one call of Raster::triangle on freshly constructed buffers,  *)
(* on any three of a wider set of vertices: inside, on the edge of and     *)
(* outside the viewport, behind the near plane, and with w of 0, 2 and -1. *)
(***************************************************************************)
DrawSizes == {<<4, 4>>, <<3, 2>>}

DrawUniform == [white |-> FALSE]

DrawVertices ==
    {Vertex(0 - GridMax, GridMax, 1, 1),
     Vertex(GridMax, GridMax, 1, 1),
     Vertex(0 - GridMax, 0 - GridMax, 1, 1),
     Vertex(-1, -1, 1, 1),
     Vertex(1, -1, 1, 1),
     Vertex(1, 1, 1, 1),
     Vertex(0 - Far, Far, 1, 1),
     Vertex(Far, 0, 1, 1),
     Vertex(0, 0 - Far, 1, 1),
     Vertex(0, 0, -1, 1),
     Vertex(1, -1, 1, 0),
     Vertex(0 - GridMax, GridMax, 1, 2),
     Vertex(1, 1, 1, -1)}

InitDraw ==
    /\ \E size \in DrawSizes : Constructed(size)
    /\ uniform = DrawUniform

DrawAny ==
    /\ last.op = "new"
    /\ \E v0 \in DrawVertices, v1 \in DrawVertices, v2 \in DrawVertices :
          Triangle(v0, v1, v2)

NextDraw == DrawAny

SpecDraw == InitDraw /\ [][NextDraw]_vars

(***************************************************************************)
(* What the claims speak of.                                               *)
(***************************************************************************)
IsTriangle == last.op = "triangle"

SeqSet(q) == {q[i] : i \in 1..Len(q)}

\* The calls of the last triangle call that passed an (x, y) to a buffer.
Accessed == SeqSet(last.log.gets) \cup SeqSet(last.log.sets) \cup SeqSet(last.log.writes)

InViewport(p) ==
    /\ 0 <= p[1] /\ p[1] < Target_width(target)
    /\ 0 <= p[2] /\ p[2] < Target_height(target)

ViewportPixels == (0..(Target_width(target) - 1)) \X (0..(Target_height(target) - 1))

\* The last call got as far as the screen mapping.
Mapped == IsTriangle /\ last.log.stage # "near_reject"

Rasterized == IsTriangle /\ last.log.stage = "rasterized"

\* edgeTotal of the last call.
EdgeTotal == Raster_edge(last.log.clippos[1], last.log.clippos[2], last.log.clippos[3])

\* The last call left both buffers as they were.
BuffersUnchanged == depth = last.before.depth /\ target = last.before.target

\* The last call did no per-pixel work at all.
NoPixelWork ==
    /\ last.log.gets = <<>> /\ last.log.sets = <<>>
    /\ last.log.frags = <<>> /\ last.log.writes = <<>>

\* A screen position off the target.
OffTarget(c) ==
    \/ FLt(c.x, F0) \/ FGe(c.x, I32ToF32(Target_width(target)))
    \/ FLt(c.y, F0) \/ FGe(c.y, I32ToF32(Target_height(target)))

\* C1: every (x, y) Raster::triangle passes to DepthBuffer::get,
\* DepthBuffer::set or Target::set lies in the target: 0 <= x < width and
\* 0 <= y < height, for triangles inside, partly outside and outside it.
C1_AccessesInViewport == IsTriangle => \A p \in Accessed : InViewport(p)

\* A triangle with a vertex off the target that shaded pixels.
C1_Witness ==
    /\ Rasterized /\ last.log.writes # <<>>
    /\ \E i \in 1..3 : OffTarget(last.log.clippos[i])

\* A screen position on the target's pixel grid.
OnTarget(c) ==
    /\ FGe(c.x, F0) /\ FGe(I32ToF32(Target_width(target) - 1), c.x)
    /\ FGe(c.y, F0) /\ FGe(I32ToF32(Target_height(target) - 1), c.y)

\* 0 <= w <= 1
InUnit(w) == FGe(w, F0) /\ FGe(F1, w)

AllInUnit(w) == InUnit(w[1]) /\ InUnit(w[2]) /\ InUnit(w[3])

\* The pixels whose three weights, computed as draw_line computes them at the
\* pixel coordinate, all lie in [0, 1].
WeightCovered ==
    {p \in ViewportPixels :
        AllInUnit(Weights(last.log.clippos, EdgeTotal, p[1], p[2]))}

\* Every clip w of the last call is finite and positive.
PositiveW ==
    \A i \in 1..3 : LET w == last.args[i].position.w
                    IN IsFin(w) /\ FGt(w, F0)

\* The depth buffer before the last call held the value of DepthBuffer::new
\* in every cell, which every fragment of positive depth passes.
DepthAccepts ==
    /\ last.before.depth = DepthBuffer_new(Target_width(target), Target_height(target))
    /\ PositiveW

\* C2: a non-degenerate front-facing triangle inside the viewport, drawn on a
\* depth buffer that accepts its fragments, shades exactly the pixels whose
\* three barycentric weights lie in [0, 1], each of them exactly once
\* (fragment program run once, target written once).
C2_ShadedSetIsWeightCovered ==
    (/\ Rasterized /\ FGt(EdgeTotal, F0)
     /\ \A i \in 1..3 : OnTarget(last.log.clippos[i])
     /\ DepthAccepts)
    => /\ SeqSet(last.log.writes) = WeightCovered
       /\ Len(last.log.writes) = Cardinality(WeightCovered)
       /\ last.log.frags = last.log.writes

\* The 4x4 scenario of the end-to-end test: the screen positions of the
\* triangle, in the order the winding test accepts.
C3Screen == <<Vec2(F0, F0), Vec2(F0, FromInt(4)), Vec2(FromInt(4), F0)>>

C3Pixels == {p \in (0..3) \X (0..3) : p[1] + p[2] < 4}

WhiteBytes == PackColor(White)

\* C3: on a 4x4 target with a cleared depth buffer and the white fragment
\* program, the triangle with screen vertices (0,0), (4,0), (0,4) shades
\* exactly the 10 pixels with x + y < 4 white and leaves the others as they
\* were.
C3_EndToEnd ==
    (/\ IsTriangle /\ uniform.white
     /\ Target_width(target) = 4 /\ Target_height(target) = 4
     /\ last.before.depth = DepthBuffer_clear(last.before.depth)
     /\ last.log.stage # "near_reject" /\ last.log.clippos = C3Screen)
    => /\ SeqSet(last.log.writes) = C3Pixels
       /\ \A p \in (0..3) \X (0..3) :
             LET i == BufferIndex(target, p[1], p[2]) + 1
             IN target.data[i] = IF p \in C3Pixels THEN WhiteBytes
                                 ELSE last.before.target.data[i]

\* C4: right after DepthBuffer::clear, the first fragment of a front-facing
\* triangle with finite positive clip w at a covered pixel of the viewport
\* passes the depth test: its depth cell is set and its colour written.
C4_ClearThenDrawRenders ==
    (/\ Rasterized /\ last.prev = "depth_clear" /\ PositiveW
     /\ last.log.gets # <<>>)
    => /\ last.log.sets # <<>> /\ last.log.sets[1] = last.log.gets[1]
       /\ last.log.writes # <<>> /\ last.log.writes[1] = last.log.gets[1]
       /\ depth # last.before.depth

\* C5: a Raster::triangle call that repeats the call before it, with the
\* same arguments, leaves every depth cell and every target pixel as the
\* first call left them.
C5_Idempotent == (IsTriangle /\ last.repeat) => BuffersUnchanged

\* A repeated call that tested a pixel against the depth its first call had
\* stored there.
C5_Witness ==
    /\ Rasterized /\ last.repeat /\ last.log.sets = <<>>
    /\ \E p \in SeqSet(last.log.gets) :
          DepthBuffer_get(depth, p[1], p[2])
            = CalculatedDepth(Weights(last.log.clippos, EdgeTotal, p[1], p[2]),
                              <<FDiv(F1, last.args[1].position.w),
                                FDiv(F1, last.args[2].position.w),
                                FDiv(F1, last.args[3].position.w)>>)

\* The three orders that swap two vertices.
Swaps == {<<2, 1, 3>>, <<1, 3, 2>>, <<3, 2, 1>>}

Permuted(t, s) == <<t[s[1]], t[s[2]], t[s[3]]>>

\* Raster::triangle on the buffers the last call started from, with the
\* last call's vertices in the order s.
Reordered(s) ==
    LET a == Permuted(last.args, s)
    IN Raster_triangle(last.before.depth, last.before.target, uniform, a[1], a[2], a[3])

\* C6: when edgeTotal is not zero, swapping two of the three vertices negates
\* the edge function, and a triangle rasterized in one order is culled in
\* each swapped order: no depth write, no target write, no fragment call.
C6_SwapNegatesAndCulls ==
    (Mapped /\ ~IsNaN(EdgeTotal) /\ ~IsZero(EdgeTotal))
    => \A s \in Swaps :
          LET c == Permuted(last.log.clippos, s)
          IN /\ Raster_edge(c[1], c[2], c[3]) = FNeg(EdgeTotal)
             /\ Rasterized =>
                  LET r == Reordered(s)
                  IN /\ r.stage = "backface" /\ r.clippos = c
                     /\ r.sets = <<>> /\ r.writes = <<>> /\ r.frags = <<>>
                     /\ r.depth = last.before.depth
                     /\ r.target = last.before.target

\* Some vertex of the last call has clip z < 0.
BehindNear == \E i \in 1..3 : FLt(last.args[i].position.z, F0)

\* C7: a triangle with z < 0 at any one vertex is discarded whole: both
\* buffers unchanged and the fragment program never run, whatever the other
\* two vertices are.
C7_NearPlaneReject ==
    (IsTriangle /\ BehindNear)
    => /\ last.log.stage = "near_reject"
       /\ NoPixelWork
       /\ BuffersUnchanged

\* A discarded triangle whose first vertex is in front of the near plane and
\* which, with the offending vertex moved to z = 1, shades pixels.
C7_Witness ==
    /\ IsTriangle /\ BehindNear
    /\ ~FLt(last.args[1].position.z, F0)
    /\ LET front(v) == [v EXCEPT !.position.z = F1]
           r == Raster_triangle(last.before.depth, last.before.target, uniform,
                                front(last.args[1]), front(last.args[2]),
                                front(last.args[3]))
       IN r.writes # <<>>

\* C8: a triangle whose edgeTotal is zero is discarded before any per-pixel
\* work: no weight is computed by dividing by it, the fragment program is
\* not run and neither buffer is written.
C8_DegenerateSkipped ==
    (Mapped /\ IsZero(EdgeTotal))
    => /\ NoPixelWork
       /\ BuffersUnchanged

\* C9: a triangle with clip w = 0 (or a non-finite component) at a vertex is
\* detected and discarded before the perspective divide: nothing is divided
\* by zero and both buffers are unchanged.
C9_ZeroWDiscarded ==
    (/\ IsTriangle
     /\ \E i \in 1..3 : LET q == last.args[i].position
                        IN \/ IsZero(q.w)
                           \/ ~IsFin(q.x) \/ ~IsFin(q.y) \/ ~IsFin(q.z) \/ ~IsFin(q.w))
    => /\ \A i \in 1..Len(last.log.divides) : ~IsZero(last.log.divides[i])
       /\ NoPixelWork
       /\ BuffersUnchanged

F2 == FromInt(2)

\* (x/w)*targetWidth/2 + targetWidth/2 and (-y/w)*targetHeight/2 + targetHeight/2
HalfExtentMapping(q, width, height) ==
    Vec2(FAdd(FDiv(FMul(FDiv(q.x, q.w), width), F2), FDiv(width, F2)),
         FAdd(FDiv(FMul(FDiv(FNeg(q.y), q.w), height), F2), FDiv(height, F2)))

\* C10: for w # 0 the screen position used by the winding test and the scan
\* conversion is x_s = (x/w)*width/2 + width/2, y_s = (-y/w)*height/2 +
\* height/2, so x/w in [-1, 1] maps onto [0, width].
C10_ScreenMapping ==
    Mapped =>
        \A i \in 1..3 :
            LET q == last.args[i].position
                m == HalfExtentMapping(q, I32ToF32(Target_width(target)),
                                       I32ToF32(Target_height(target)))
            IN ~IsZero(q.w) =>
                 /\ FEq(last.log.clippos[i].x, m.x)
                 /\ FEq(last.log.clippos[i].y, m.y)
                 /\ InUnit(FDiv(FAdd(FDiv(q.x, q.w), F1), F2)) =>
                      /\ FGe(last.log.clippos[i].x, F0)
                      /\ FGe(I32ToF32(Target_width(target)), last.log.clippos[i].x)

(***************************************************************************)
(* The Interpolate impl the derive generates (black-codegen), field by     *)
(* field: what impl_new_function, impl_correct_function and                *)
(* impl_interpolate_function emit for a field of each of the four kinds.   *)
(* A field of kind f32 is an f32; one of kind Vec2, Vec3 or Vec4 is the    *)
(* vector.                                                                 *)
(***************************************************************************)
Vec3(x, y, z) == [x |-> x, y |-> y, z |-> z]

FieldKinds == {"Vec4", "Vec3", "Vec2", "f32"}

\* The initializer of new() for a field.
Field_new(kind) ==
    CASE kind = "Vec4" -> Vec4(Zero(0), Zero(0), Zero(0), Zero(0))
      [] kind = "Vec3" -> Vec3(Zero(0), Zero(0), Zero(0))
      [] kind = "Vec2" -> Vec2(Zero(0), Zero(0))
      [] kind = "f32"  -> Zero(0)

\* The initializer of correct(v, w) for a field.
Field_correct(kind, v, w) ==
    CASE kind = "Vec4" -> Vec4(FDiv(v.x, w), FDiv(v.y, w), FDiv(v.z, w), FDiv(v.w, w))
      [] kind = "Vec3" -> Vec3(FDiv(v.x, w), FDiv(v.y, w), FDiv(v.z, w))
      [] kind = "Vec2" -> Vec2(FDiv(v.x, w), FDiv(v.y, w))
      [] kind = "f32"  -> FDiv(v, w)

\* ((w0 * a0) + (w1 * a1) + (w2 * a2)) / w
Blend(a0, a1, a2, w0, w1, w2, w) ==
    FDiv(FAdd(FAdd(FMul(w0, a0), FMul(w1, a1)), FMul(w2, a2)), w)

\* The initializer of interpolate(v0, v1, v2, w0, w1, w2, w) for a field.
Field_interpolate(kind, v0, v1, v2, w0, w1, w2, w) ==
    CASE kind = "Vec4" -> Vec4(Blend(v0.x, v1.x, v2.x, w0, w1, w2, w),
                               Blend(v0.y, v1.y, v2.y, w0, w1, w2, w),
                               Blend(v0.z, v1.z, v2.z, w0, w1, w2, w),
                               Blend(v0.w, v1.w, v2.w, w0, w1, w2, w))
      [] kind = "Vec3" -> Vec3(Blend(v0.x, v1.x, v2.x, w0, w1, w2, w),
                               Blend(v0.y, v1.y, v2.y, w0, w1, w2, w),
                               Blend(v0.z, v1.z, v2.z, w0, w1, w2, w))
      [] kind = "Vec2" -> Vec2(Blend(v0.x, v1.x, v2.x, w0, w1, w2, w),
                               Blend(v0.y, v1.y, v2.y, w0, w1, w2, w))
      [] kind = "f32"  -> Blend(v0, v1, v2, w0, w1, w2, w)

(***************************************************************************)
(* SpecInterpolate: the generated correct and interpolate applied one     *)
(* after the other: three varyings corrected by their clip w, then         *)
(* interpolated on given weights and a given depth.  The weights given     *)
(* are 1 at a corner i and a zero of either sign at the other two, the     *)
(* depth is 1 / w_i; what draw_line computes at a pixel is in Weights and  *)
(* CalculatedDepth.                                                        *)
(***************************************************************************)
\* 2^100 and 2^-100.
Huge == Fin(0, Hidden, 101 - MantBits)

Tiny == Fin(0, Hidden, 0 - 99 - MantBits)

\* A field of a kind from two components.
FieldOf(kind, a, b) ==
    CASE kind = "Vec4" -> Vec4(a, b, b, a)
      [] kind = "Vec3" -> Vec3(a, b, a)
      [] kind = "Vec2" -> Vec2(a, b)
      [] kind = "f32"  -> a

CornerComponents == {F1, FromInt(-3), Ratio(1, 3)}

OtherComponents == {F1, Huge}

\* The zeros a weight is given as.
Zeros == {Zero(0), Zero(1)}

\* The weights 1 at corner i and zero at the other two.
UnitWeights(i, zero) == [n \in 1..3 |-> IF n = i THEN F1 ELSE zero]

\* interpolate(correct(v[1], w[1]), correct(v[2], w[2]), correct(v[3], w[3]),
\*             weights[1], weights[2], weights[3], cd)
InterpolateCorrected(kind, v, w, weights, cd) ==
    Field_interpolate(kind, Field_correct(kind, v[1], w[1]),
                      Field_correct(kind, v[2], w[2]),
                      Field_correct(kind, v[3], w[3]),
                      weights[1], weights[2], weights[3], cd)

Interpolated(kind, v, w, i, weights, cd) ==
    /\ last' = [op |-> "interpolate", prev |-> last.op, kind |-> kind,
                v |-> v, w |-> w, corner |-> i, weights |-> weights, cd |-> cd,
                result |-> InterpolateCorrected(kind, v, w, weights, cd)]
    /\ ops' = ops + 1
    /\ UNCHANGED <<depth, target, uniform>>

InitInterpolate ==
    /\ Constructed(MeshSize)
    /\ uniform = DrawUniform

RoundTrip ==
    /\ last.op = "new"
    /\ \E kind \in FieldKinds, i \in 1..3,
          a \in CornerComponents, b \in CornerComponents,
          c1 \in OtherComponents, c2 \in OtherComponents,
          w0 \in {F1, FromInt(3), FromInt(-2)},
          w1 \in {F1, FromInt(3), Tiny, F0},
          w2 \in {F1, FromInt(-2)}, zero \in Zeros :
          Interpolated(kind,
                       [n \in 1..3 |-> IF n = i THEN FieldOf(kind, a, b)
                                       ELSE IF n = 1 + (i % 3) THEN FieldOf(kind, c1, c1)
                                       ELSE FieldOf(kind, c2, c2)],
                       [n \in 1..3 |-> IF n = i THEN w0
                                       ELSE IF n = 1 + (i % 3) THEN w1 ELSE w2],
                       i, UnitWeights(i, zero), FDiv(F1, w0))

NextInterpolate == RoundTrip

SpecInterpolate == InitInterpolate /\ [][NextInterpolate]_vars

\* std::f32::EPSILON, 2^-23.
Epsilon == Fin(0, Hidden, 1 - 2 * MantBits)

FAbs(a) == IF IsNaN(a) THEN NaN ELSE [a EXCEPT !.s = 0]

\* a equals b within a relative error of 8 epsilon.
Close(a, b) ==
    \/ FEq(a, b)
    \/ /\ IsFin(a) /\ IsFin(b)
       /\ ~FGt(FAbs(FSub(a, b)), FMul(FMul(FromInt(8), Epsilon), FAbs(b)))

\* Two fields of a kind are equal within epsilon, component by component.
CloseField(kind, r, v) ==
    CASE kind = "Vec4" -> Close(r.x, v.x) /\ Close(r.y, v.y) /\ Close(r.z, v.z) /\ Close(r.w, v.w)
      [] kind = "Vec3" -> Close(r.x, v.x) /\ Close(r.y, v.y) /\ Close(r.z, v.z)
      [] kind = "Vec2" -> Close(r.x, v.x) /\ Close(r.y, v.y)
      [] kind = "f32"  -> Close(r, v)

IsInterpolate == last.op = "interpolate"

\* The weights are 1 at corner i and 0 at the other two.
UnitAt(weights, i) ==
    \A n \in 1..3 : FEq(weights[n], IF n = i THEN F1 ELSE F0)

\* C11: the round-trip law.  For each of the four field kinds, every
\* varying v_i and every clip w_i # 0, interpolate on the three corrected
\* varyings with weight 1 at corner i, 0 at the other two and 1 / w_i for w
\* gives back v_i (within epsilon), whatever the other two varyings and
\* their clip w are.
C11_RoundTrip ==
    /\ IsInterpolate
    /\ ~FEq(last.w[last.corner], F0)
    /\ UnitAt(last.weights, last.corner)
    /\ FEq(last.cd, FDiv(F1, last.w[last.corner]))
    => CloseField(last.kind, last.result, last.v[last.corner])

(***************************************************************************)
(* SpecDepth: a DepthBuffer of any of a few sizes, 1x1 included, and the   *)
(* calls made on it, in any order: set and get on any cell in range,       *)
(* clear, and Raster::triangle.                                            *)
(*   last  for a set, the cell, the value and the buffers before it; for   *)
(*         a get, the cell and the value returned                          *)
(***************************************************************************)
DepthSizes == {<<1, 1>>, <<3, 2>>}

DepthValues == {FHalf, FromInt(2)}

\* The cells a caller may name: 0 <= x < width, 0 <= y < height.
DepthCells(self) == (0..(self.width - 1)) \X (0..(self.height - 1))

InitDepth ==
    /\ \E size \in DepthSizes : Constructed(size)
    /\ uniform = DrawUniform

\* depth.set(x, y, value)
DepthSet ==
    /\ ops < MaxOps /\ ~Panicked
    /\ \E p \in DepthCells(depth), value \in DepthValues :
          /\ depth' = DepthBuffer_set(depth, p[1], p[2], value)
          /\ last' = [op |-> "depth_set", prev |-> last.op, at |-> p, value |-> value,
                      before |-> [depth |-> depth, target |-> target]]
    /\ ops' = ops + 1
    /\ UNCHANGED <<target, uniform>>

\* depth.get(x, y)
DepthGet ==
    /\ ops < MaxOps /\ ~Panicked
    /\ \E p \in DepthCells(depth) :
          last' = [op |-> "depth_get", prev |-> last.op, at |-> p,
                   value |-> DepthBuffer_get(depth, p[1], p[2])]
    /\ ops' = ops + 1
    /\ UNCHANGED <<depth, target, uniform>>

\* Raster::triangle on the depth buffer: two triangles of the mesh.
DepthDraw ==
    /\ ops < MaxOps
    /\ \E n \in {1, 5} :
          Triangle(MeshVertices[MeshIndices[n][1]], MeshVertices[MeshIndices[n][2]],
                   MeshVertices[MeshIndices[n][3]])

NextDepth == DepthSet \/ DepthGet \/ DepthClear \/ DepthDraw

SpecDepth == InitDepth /\ [][NextDepth]_vars

\* C12: after DepthBuffer::clear, get(x, y) returns the one sentinel,
\* f32::MAX, for every 0 <= x < width and 0 <= y < height, for every buffer
\* size (1x1 included) and whatever was set before.
C12_ClearFillsSentinel ==
    last.op = "depth_clear" =>
        \A p \in DepthCells(depth) : DepthBuffer_get(depth, p[1], p[2]) = F32Max

\* A clear of a buffer that a set had written to just before.
C12_Witness ==
    /\ last.op = "depth_clear" /\ last.prev = "depth_set"
    /\ ops = MaxOps

\* C13: DepthBuffer::new(width, height) yields exactly width * height
\* cells, and get(x, y) reads 0.0 for every 0 <= x < width, 0 <= y < height.
C13_NewIsZeroed ==
    last.op = "new" =>
        /\ depth.width = Target_width(target) /\ depth.height = Target_height(target)
        /\ Len(depth.data) = Target_width(target) * Target_height(target)
        /\ \A p \in DepthCells(target) : DepthBuffer_get(depth, p[1], p[2]) = Zero(0)

\* A freshly constructed buffer that is not square.
C13_Witness ==
    /\ last.op = "new" /\ depth.width # depth.height
    /\ Len(depth.data) > 1

\* The cells of the buffer other than p read after the step what they read
\* before it.
OthersKept(p) ==
    \A q \in DepthCells(depth) \ {p} :
        DepthBuffer_get(depth', q[1], q[2]) = DepthBuffer_get(depth, q[1], q[2])

\* C14: the DepthBuffer is a row-major grid of fixed size.  For (x, y) in
\* range, get(x, y) after set(x, y, v) returns v and every other cell in
\* range keeps its value; and no call (set, get, clear, Raster::triangle)
\* changes width, height or the number of cells.
C14_RowMajorGrid ==
    [][/\ last'.op = "depth_set" =>
             /\ DepthBuffer_get(depth', last'.at[1], last'.at[2]) = last'.value
             /\ OthersKept(last'.at)
       /\ depth'.width = depth.width /\ depth'.height = depth.height
       /\ Len(depth'.data) = Len(depth.data)]_vars

\* A set that changed a cell of a buffer that is not square, in its last
\* row, other cells holding values set before.
C14_Witness ==
    /\ last.op = "depth_set" /\ last.prev = "depth_set"
    /\ depth.width # depth.height
    /\ last.at[2] = depth.height - 1 /\ last.at[1] > 0
    /\ DepthBuffer_get(last.before.depth, last.at[1], last.at[2]) # last.value
    /\ \E q \in DepthCells(depth) \ {last.at} :
          DepthBuffer_get(depth, q[1], q[2]) # Zero(0)

(***************************************************************************)
(* SpecTies: triangles submitted one after the other on the buffers as     *)
(* constructed, the fragment program shading by the varying: three         *)
(* triangles of the mesh, each with all its vertices of one shade or of    *)
(* the other, so that triangles of the same positions and different        *)
(* colours follow each other.                                              *)
(***************************************************************************)
TieShades == {Ratio(1, 4), Ratio(3, 4)}

TieIndices == {MeshIndices[1], MeshIndices[4], MeshIndices[5]}

\* The vertex v with the shade given.
Tinted(v, shade) == [v EXCEPT !.shade = shade]

InitTies ==
    /\ Constructed(MeshSize)
    /\ uniform = DrawUniform

DrawTinted ==
    /\ ops < MaxOps
    /\ \E t \in TieIndices, shade \in TieShades :
          Triangle(Tinted(MeshVertices[t[1]], shade), Tinted(MeshVertices[t[2]], shade),
                   Tinted(MeshVertices[t[3]], shade))

NextTies == DrawTinted

SpecTies == InitTies /\ [][NextTies]_vars

\* The bytes the last call's fragment of weights w and depth cd would
\* leave in the target.
LaterColour(w, cd) ==
    PackColor(FragmentMain(uniform,
        Interpolate_interpolate(
            Interpolate_correct(VertexMain(uniform, last.args[1], Interpolate_new).varying,
                                last.log.divides[1]),
            Interpolate_correct(VertexMain(uniform, last.args[2], Interpolate_new).varying,
                                last.log.divides[2]),
            Interpolate_correct(VertexMain(uniform, last.args[3], Interpolate_new).varying,
                                last.log.divides[3]),
            w[1], w[2], w[3], cd)))

\* The pixel p holds the last call's colour if the last call's fragment
\* there, of depth cd, ties with the depth stored before the call.
TieResolved(p, w, cd) ==
    FEq(cd, DepthBuffer_get(last.before.depth, p[1], p[2])) =>
        target.data[BufferIndex(target, p[1], p[2]) + 1] = LaterColour(w, cd)

TieWeighed(p, w) ==
    TieResolved(p, w, CalculatedDepth(w, <<FDiv(F1, last.log.divides[1]),
                                           FDiv(F1, last.log.divides[2]),
                                           FDiv(F1, last.log.divides[3])>>))

\* The pixels the last call visited that an earlier triangle had written.
CoveredBefore ==
    {p \in SeqSet(last.log.gets) :
        ~FEq(DepthBuffer_get(last.before.depth, p[1], p[2]), F0)}

\* C15: depth ties go to the later triangle.  When a triangle's fragment at
\* a pixel has exactly the depth an earlier submitted triangle stored
\* there, the colour left in the target at that pixel is the later
\* triangle's.
C15_LastWriterWins ==
    Rasterized /\ last.prev = "triangle" =>
        \A p \in CoveredBefore :
            TieWeighed(p, Weights(last.log.clippos, EdgeTotal, p[1], p[2]))

(***************************************************************************)
(* SpecSteps: one call of Raster::triangle, loop iteration by loop         *)
(* iteration.  last is the call in progress and ops the steps it took:     *)
(*   pc     "culled" (returned before run_fragment), "part" (in            *)
(*          run_fragment, about to render the next flat triangle of        *)
(*          parts, or to return), "rows" (at the head of the row loop of   *)
(*          render_bottom_flat_triangle or render_top_flat_triangle),      *)
(*          "pixels" (at the head of the pixel loop of draw_line), "done"  *)
(*          (returned) or "panicked"                                       *)
(*   args   the three vertices                                             *)
(*   ctx    what run_fragment was called with;  edge  draw_line's edge     *)
(*   parts  the flat triangles still to render                             *)
(*   kind, y, end, cur_x0, cur_x1, slope_0, slope_1   the row loop         *)
(*   x, maxx                                          the pixel loop       *)
(***************************************************************************)
\* The flat triangles run_fragment renders for the ordered positions o.
SplitParts(o, o3) ==
    <<<<"bottom_flat", o[1], o[2], o3>>, <<"top_flat", o[2], o3, o[3]>>>>

PartsOf(o) ==
    IF FEq(o[2].y, o[3].y) THEN <<<<"bottom_flat", o[1], o[2], o[3]>>>>
    ELSE IF FEq(o[1].y, o[2].y) THEN <<<<"top_flat", o[1], o[2], o[3]>>>>
    ELSE SplitParts(o, SplitPosition(o))

\* The buffers as the state a step of the call works on.
Working == [depth |-> depth, target |-> target] @@ NoLog

\* Raster::triangle returned before run_fragment.
Returned(args) == [op |-> "run", prev |-> last.op, pc |-> "culled", args |-> args]

\* run_fragment entered.
Entered(args, pos, varyings, clippos) ==
    [op |-> "run", prev |-> last.op, pc |-> "part", args |-> args,
     ctx |-> [uniform |-> uniform,
              varying |-> <<Interpolate_correct(varyings[1], pos[1].w),
                            Interpolate_correct(varyings[2], pos[2].w),
                            Interpolate_correct(varyings[3], pos[3].w)>>,
              clippos |-> clippos,
              cz |-> <<FDiv(F1, pos[1].w), FDiv(F1, pos[2].w), FDiv(F1, pos[3].w)>>],
     edge |-> Raster_edge(clippos[1], clippos[2], clippos[3]),
     parts |-> PartsOf(OrderedPositions(clippos))]

\* Raster::triangle from the winding test to the call of run_fragment.
WindingStep(args, pos, varyings, clippos) ==
    IF ~FrontFacing(clippos[1], clippos[2], clippos[3]) THEN Returned(args)
    ELSE Entered(args, pos, varyings, clippos)

\* Raster::triangle from the near-plane test on.
NearStep(args, pos, varyings) ==
    IF NearReject(pos[1], pos[2], pos[3]) THEN Returned(args)
    ELSE WindingStep(args, pos, varyings,
             <<ScreenPosition(pos[1], I32ToF32(Target_width(target)),
                              I32ToF32(Target_height(target))),
               ScreenPosition(pos[2], I32ToF32(Target_width(target)),
                              I32ToF32(Target_height(target))),
               ScreenPosition(pos[3], I32ToF32(Target_width(target)),
                              I32ToF32(Target_height(target)))>>)

VertexStep(args, r) ==
    NearStep(args, <<r[1].position, r[2].position, r[3].position>>,
             <<r[1].varying, r[2].varying, r[3].varying>>)

\* Raster::triangle up to its first loop.
Begin ==
    /\ last.op = "new"
    /\ \E v0 \in DrawVertices, v1 \in DrawVertices, v2 \in DrawVertices :
          last' = VertexStep(<<v0, v1, v2>>,
                             <<VertexMain(uniform, v0, Interpolate_new),
                               VertexMain(uniform, v1, Interpolate_new),
                               VertexMain(uniform, v2, Interpolate_new)>>)
    /\ ops' = ops + 1
    /\ UNCHANGED <<depth, target, uniform>>

\* The row loop of a flat triangle set up: its first row, its last row,
\* cur_x0 = cur_x1 and the two slopes.
RowLoop(kind, y, end, cur_x, slope_0, slope_1) ==
    [kind |-> kind, y |-> y, end |-> end, cur_x0 |-> cur_x, cur_x1 |-> cur_x,
     slope_0 |-> slope_0, slope_1 |-> slope_1, x |-> 0, maxx |-> 0]
    @@ [last EXCEPT !.pc = "rows", !.parts = Tail(@)]

\* render_bottom_flat_triangle and render_top_flat_triangle up to the loop.
EnterPart(kind, p0, p1, p2) ==
    IF kind = "bottom_flat"
    THEN RowLoop(kind, AsI32(p0.y), AsI32(p1.y), p0.x,
                 FDiv(FSub(p1.x, p0.x), FSub(p1.y, p0.y)),
                 FDiv(FSub(p2.x, p0.x), FSub(p2.y, p0.y)))
    ELSE RowLoop(kind, AsI32(p2.y), AsI32(p1.y), p2.x,
                 FDiv(FSub(p2.x, p0.x), FSub(p2.y, p0.y)),
                 FDiv(FSub(p2.x, p1.x), FSub(p2.y, p1.y)))

\* run_fragment between two flat triangles, and its return.
NextPart ==
    /\ last.op = "run" /\ last.pc = "part"
    /\ last' = IF last.parts = <<>> THEN [last EXCEPT !.pc = "done"]
               ELSE EnterPart(last.parts[1][1], last.parts[1][2], last.parts[1][3],
                              last.parts[1][4])
    /\ ops' = ops + 1
    /\ UNCHANGED <<depth, target, uniform>>

\* The row after y, and the row before it.
RowAfter(y) == y + 1

RowBefore(y) == y - 1

\* The loop variable and cur_x0, cur_x1 at the end of an iteration of the
\* row loop.
Stepped(y, cur_x0, cur_x1) ==
    [last EXCEPT !.pc = "rows", !.y = y, !.cur_x0 = cur_x0, !.cur_x1 = cur_x1]

RowStepped ==
    IF last.kind = "bottom_flat"
    THEN Stepped(RowAfter(last.y), FAdd(last.cur_x0, last.slope_0),
                 FAdd(last.cur_x1, last.slope_1))
    ELSE Stepped(RowBefore(last.y), FSub(last.cur_x0, last.slope_0),
                 FSub(last.cur_x1, last.slope_1))

\* The rows left are none, or all outside the viewport on the far side.
RowsOver ==
    IF last.kind = "bottom_flat"
    THEN last.y > last.end \/ last.y >= Target_height(target)
    ELSE last.y < last.end \/ last.y < 0

\* The rows before the viewport, cur_x0 and cur_x1 no longer changing: they
\* are walked in one step (see BottomFlatRows).
RowsIdle ==
    IF last.kind = "bottom_flat"
    THEN /\ last.y < 0
         /\ FAdd(last.cur_x0, last.slope_0) = last.cur_x0
         /\ FAdd(last.cur_x1, last.slope_1) = last.cur_x1
    ELSE /\ last.y >= Target_height(target)
         /\ FSub(last.cur_x0, last.slope_0) = last.cur_x0
         /\ FSub(last.cur_x1, last.slope_1) = last.cur_x1

RowsSkipped ==
    IF last.kind = "bottom_flat"
    THEN (IF last.end < 0 THEN [last EXCEPT !.pc = "part"] ELSE [last EXCEPT !.y = 0])
    ELSE (IF last.end >= Target_height(target) THEN [last EXCEPT !.pc = "part"]
          ELSE [last EXCEPT !.y = Target_height(target) - 1])

\* draw_line up to its loop.
LineEntered(cur_x0, cur_x1) ==
    IF ~RowInViewport(target, last.y) THEN RowStepped
    ELSE [last EXCEPT !.pc = "pixels",
                      !.x = SpanMin(target, cur_x0, cur_x1),
                      !.maxx = SpanMax(target, cur_x0, cur_x1)]

\* The head of the row loop: the loop ends, or draw_line is called.
NextRow ==
    /\ last.op = "run" /\ last.pc = "rows"
    /\ last' = IF RowsOver THEN [last EXCEPT !.pc = "part"]
               ELSE IF RowsIdle THEN RowsSkipped
               ELSE LineEntered(AsI32(last.cur_x0), AsI32(last.cur_x1))
    /\ ops' = ops + 1
    /\ UNCHANGED <<depth, target, uniform>>

\* The pixel loop's x never advancing.
PixelStays(x) == x

\* The pixel after x.
PixelAfter(x) == x + 1

\* The body of the pixel loop at the pixel x of the row y.
PixelDrawn == DrawPixel(Working, last.ctx, last.edge, last.x, last.y)

\* The end of an iteration of the pixel loop that left the buffers as in st.
PixelStepped(st) ==
    IF st.panic THEN [last EXCEPT !.pc = "panicked"]
    ELSE [last EXCEPT !.x = PixelAfter(@)]

\* The head of the pixel loop: the loop ends and draw_line returns to the
\* row loop, or the pixel x is drawn.
NextPixel ==
    /\ last.op = "run" /\ last.pc = "pixels"
    /\ depth' = IF last.x > last.maxx THEN depth ELSE PixelDrawn.depth
    /\ target' = IF last.x > last.maxx THEN target ELSE PixelDrawn.target
    /\ last' = IF last.x > last.maxx THEN RowStepped ELSE PixelStepped(PixelDrawn)
    /\ ops' = ops + 1
    /\ UNCHANGED uniform

NextSteps == Begin \/ NextPart \/ NextRow \/ NextPixel

SpecSteps == InitDraw /\ [][NextSteps]_vars

Running == last.op = "run"

\* The row loop went on to a row nearer its last row, from a row of its
\* y-extent.
RowAdvanced ==
    /\ last'.pc = "rows" /\ last'.parts = last.parts
    /\ IF last.kind = "bottom_flat"
       THEN last.y <= last.end /\ last'.y > last.y
       ELSE last.y >= last.end /\ last'.y < last.y

\* A step of the call brought it nearer its return: a flat triangle fewer
\* to render; or, in a flat triangle, its row loop ended or went on to a
\* later row; or, in a row, the pixel loop was entered with a clamped
\* range, or went on from x <= maxx to x + 1.
Advanced ==
    \/ /\ last.pc = "part" /\ last.parts = <<>> /\ last'.pc = "done"
    \/ /\ last.pc = "part" /\ last'.pc = "rows"
       /\ Len(last'.parts) < Len(last.parts)
    \/ /\ last.pc \in {"rows", "pixels"} /\ last'.pc = "part"
       /\ last'.parts = last.parts
    \/ /\ last.pc = "rows" /\ RowAdvanced
    \/ /\ last.pc = "rows" /\ last'.pc = "pixels" /\ last'.parts = last.parts
       /\ last'.y = last.y
       /\ 0 <= last'.x /\ last'.maxx < Target_width(target)
    \/ /\ last.pc = "pixels" /\ last'.pc = "pixels" /\ last'.parts = last.parts
       /\ last'.y = last.y /\ last'.maxx = last.maxx
       /\ last.x <= last.maxx /\ last'.x > last.x
    \/ /\ last.pc = "pixels" /\ last.x > last.maxx /\ RowAdvanced

\* C16: every call of Raster::triangle terminates, whatever the triangle
\* (culled, degenerate, partly or wholly off the target).  Every step of a
\* call that has not returned brings it nearer its return, Culled or Done:
\* the row loops are bounded by the sorted y-extent and each row's pixel
\* loop by the clamped x-range, and no step panics.
C16_Terminates ==
    [][Running => Advanced /\ last.pc \notin {"culled", "done", "panicked"}]_vars

\* A call that returned after rendering rows of a triangle lying partly
\* off the target.
C16_Witness ==
    /\ Running /\ last.pc = "done"
    /\ depth # DepthBuffer_new(depth.width, depth.height)
    /\ \E i \in 1..3 : OffTarget(last.ctx.clippos[i])

(***************************************************************************)
(* derive(Interpolate) (black-codegen).  The input is the syn AST of the   *)
(* item:                                                                   *)
(*   ident    its name                                                     *)
(*   body     "Struct" or "Enum"                                           *)
(*   variant  for a struct, "Struct" (named fields), "Tuple" or "Unit"     *)
(*   fields   its fields, each [ident, ty], a ty being [tag, segments]:    *)
(*            tag "Path" with the segments of the path, or another tag     *)
(*            (an array, a reference, a tuple)                             *)
(* A result is [ok |-> FALSE, panic |-> message], the expansion having     *)
(* panicked, or [ok |-> TRUE] with what was read or generated.             *)
(***************************************************************************)
Path(segments) == [tag |-> "Path", segments |-> segments]

Panic(message) == [ok |-> FALSE, panic |-> message]

\* The Field read_struct_metadata pushes for a field.
Field(field) ==
    IF field.ty.tag = "Path"
    THEN [ok |-> TRUE, name |-> field.ident, kind |-> field.ty.segments[1]]
    ELSE Panic("Unable to read field")

\* The fields read so far, and the next one.
Pushed(read, next) ==
    IF ~read.ok THEN read
    ELSE IF ~next.ok THEN next
    ELSE [read EXCEPT !.fields = Append(@, [name |-> next.name, kind |-> next.kind])]

\* for field in fields
RECURSIVE ReadFields(_, _, _)
ReadFields(read, fields, n) ==
    IF n > Len(fields) THEN read
    ELSE ReadFields(Pushed(read, Field(fields[n])), fields, n + 1)

read_struct_metadata(ast) ==
    IF ast.body # "Struct" THEN [ok |-> TRUE, name |-> ast.ident, fields |-> <<>>]
    ELSE IF ast.variant # "Struct" THEN Panic("Interpolate is only defined for structs")
    ELSE ReadFields([ok |-> TRUE, name |-> ast.ident, fields |-> <<>>], ast.fields, 1)

\* The match on field.kind of the three impl functions: an initializer, or
\* the panic of the default arm.
Initializer(field) ==
    IF field.kind \in FieldKinds
    THEN [ok |-> TRUE, name |-> field.name, new |-> Field_new(field.kind)]
    ELSE Panic("Cannot interpolate type")

\* The initializers of a function, in field order, up to the first panic.
RECURSIVE Initializers(_, _, _)
Initializers(done, fields, n) ==
    IF n > Len(fields) \/ ~done.ok THEN done
    ELSE Initializers(IF Initializer(fields[n]).ok
                      THEN [done EXCEPT !.fields = Append(@, Initializer(fields[n]))]
                      ELSE Initializer(fields[n]),
                      fields, n + 1)

\* impl Interpolate for #kind { new, correct, interpolate }
impl_interpolate(s) ==
    Initializers([ok |-> TRUE, kind |-> s.name, fields |-> <<>>], s.fields, 1)

\* The proc macro: the metadata read, then the impl generated.
interpolate(ast) ==
    IF ~read_struct_metadata(ast).ok THEN read_struct_metadata(ast)
    ELSE impl_interpolate(read_struct_metadata(ast))

(***************************************************************************)
(* SpecDerive: the derive applied to an item of up to MaxFields fields,    *)
(* the field types being the four kinds by their bare name, Vec4 by its    *)
(* path black::Vec4, u32 and an array.                                     *)
(***************************************************************************)
MaxFields == 2

FieldTypes ==
    {Path(<<"f32">>), Path(<<"Vec2">>), Path(<<"Vec3">>), Path(<<"Vec4">>),
     Path(<<"black", "Vec4">>), Path(<<"u32">>), [tag |-> "Array", segments |-> <<>>]}

FieldIdents == <<"position", "normal", "uv">>

\* The items of n fields.
Items(n) ==
    {[ident |-> "Varying", body |-> body, variant |-> variant,
      fields |-> [i \in 1..n |-> [ident |-> FieldIdents[i], ty |-> tys[i]]]] :
        body \in {"Struct", "Enum"}, variant \in {"Struct", "Tuple"},
        tys \in [1..n -> FieldTypes]}

InitDerive ==
    /\ Constructed(MeshSize)
    /\ uniform = DrawUniform

Derive ==
    /\ last.op = "new"
    /\ \E n \in 0..MaxFields : \E ast \in Items(n) :
          last' = [op |-> "derive", prev |-> last.op, ast |-> ast,
                   result |-> interpolate(ast)]
    /\ ops' = ops + 1
    /\ UNCHANGED <<depth, target, uniform>>

NextDerive == Derive

SpecDerive == InitDerive /\ [][NextDerive]_vars

\* The type a field is of: for a path, the type its last segment names.
TypeOf(ty) == IF ty.tag = "Path" THEN ty.segments[Len(ty.segments)] ELSE ty.tag

\* Every field of the item is an f32, a Vec2, a Vec3 or a Vec4.
AllSupported(ast) ==
    \A i \in 1..Len(ast.fields) : TypeOf(ast.fields[i].ty) \in FieldKinds

\* C17: derive(Interpolate) on a struct fails at macro expansion,
\* generating no implementation, when some field is of a type other than
\* f32, Vec2, Vec3 and Vec4, and succeeds when every field is of one of
\* these four.
C17_DeriveChecksKinds ==
    last.op = "derive" /\ last.ast.body = "Struct" =>
        (last.result.ok <=> AllSupported(last.ast))

(***************************************************************************)
(* The vertex stage, the per-pixel protocol and the y-sort.                *)
(***************************************************************************)
\* C18: Raster::triangle runs the vertex program exactly three times, on
\* v0, v1 and v2 in this order, each time with a fresh Varying equal to
\* new(), and before the near-plane and the winding test: a culled call has
\* made the three runs too.
C18_VertexStage ==
    IsTriangle =>
        last.log.vertexCalls = <<<<last.args[1], Interpolate_new>>,
                                 <<last.args[2], Interpolate_new>>,
                                 <<last.args[3], Interpolate_new>>>>

\* A call that returned at the near-plane test, its three vertices
\* different, having run the vertex program on each.
C18_Witness ==
    /\ IsTriangle /\ last.log.stage = "near_reject"
    /\ Len(last.log.vertexCalls) = 3
    /\ last.args[1] # last.args[2] /\ last.args[2] # last.args[3]
    /\ ~FLt(last.args[1].position.z, F0)

\* The cells of the two buffers at pixel p, in the buffers b.
CellsAt(b, p) ==
    <<DepthBuffer_get(b.depth, p[1], p[2]),
      b.target.data[BufferIndex(b.target, p[1], p[2]) + 1]>>

\* q is p with some entries left out.
RECURSIVE Subsequence(_, _)
Subsequence(q, p) ==
    IF q = <<>> THEN TRUE
    ELSE IF p = <<>> THEN FALSE
    ELSE IF Head(q) = Head(p) THEN Subsequence(Tail(q), Tail(p))
    ELSE Subsequence(q, Tail(p))

\* The calls the last triangle call made in the loop body of draw_line, in
\* the order it made them.
Calls == last.log.calls

\* The pixels of the calls of one kind, in order.
RECURSIVE PixelsOf(_, _)
PixelsOf(calls, kind) ==
    IF calls = <<>> THEN <<>>
    ELSE IF Head(calls).call = kind THEN <<Head(calls).at>> \o PixelsOf(Tail(calls), kind)
    ELSE PixelsOf(Tail(calls), kind)

\* The weights and the depth of the fragment of the last call at pixel p,
\* from the screen positions and the clip w of its three vertices.
PixelWeights(p) == Weights(last.log.clippos, EdgeTotal, p[1], p[2])

PixelDepth(p) ==
    CalculatedDepth(PixelWeights(p),
                    <<FDiv(F1, last.args[1].position.w), FDiv(F1, last.args[2].position.w),
                      FDiv(F1, last.args[3].position.w)>>)

\* The depth cell of pixel p as the calls before the k-th left it: the value
\* of the last depth.set on p among them, or the value before the call.
SetsBefore(p, k) == {j \in 1..(k - 1) : Calls[j].call = "depth.set" /\ Calls[j].at = p}

StoredBefore(p, k) ==
    IF SetsBefore(p, k) = {} THEN DepthBuffer_get(last.before.depth, p[1], p[2])
    ELSE Calls[CHOOSE j \in SetsBefore(p, k) : \A i \in SetsBefore(p, k) : i <= j].value

\* The target pixel p as the calls left it.
WritesTo(p) == {j \in 1..Len(Calls) : Calls[j].call = "target.set" /\ Calls[j].at = p}

WrittenLast(p) ==
    IF WritesTo(p) = {} THEN last.before.target.data[BufferIndex(target, p[1], p[2]) + 1]
    ELSE PackColor(Calls[CHOOSE j \in WritesTo(p) : \A i \in WritesTo(p) : i <= j].color)

\* The depth test of the k-th call, a depth.get, passes.
Passes(k) == FGt(PixelDepth(Calls[k].at), Calls[k].value)

\* The four calls after the k-th, a depth.get that passed: depth.set of the
\* computed depth, then interpolate on the weights and that depth, then the
\* fragment program on what interpolate returned, then target.set of the
\* colour the fragment program returned, all for the pixel of the k-th.
ShadedAfter(k) ==
    /\ k + 4 <= Len(Calls)
    /\ Calls[k + 1] = [call |-> "depth.set", at |-> Calls[k].at,
                       value |-> PixelDepth(Calls[k].at)]
    /\ Calls[k + 2].call = "interpolate" /\ Calls[k + 2].at = Calls[k].at
    /\ Calls[k + 2].weights = PixelWeights(Calls[k].at)
    /\ Calls[k + 2].depth = PixelDepth(Calls[k].at)
    /\ Calls[k + 3].call = "fragment.main" /\ Calls[k + 3].at = Calls[k].at
    /\ Calls[k + 3].varying = Calls[k + 2].varying
    /\ Calls[k + 4] = [call |-> "target.set", at |-> Calls[k].at,
                       color |-> Calls[k + 3].color]

\* No call follows the k-th, a depth.get that failed, but the depth.get of
\* the next pixel.
DiscardedAfter(k) == k = Len(Calls) \/ Calls[k + 1].call = "depth.get"

\* The call before the k-th is of the kind that precedes it in the protocol.
Preceded(k, kind) == k > 1 /\ Calls[k - 1].call = kind

InProtocol(k) ==
    CASE Calls[k].call = "depth.get" ->
            /\ Calls[k].value = StoredBefore(Calls[k].at, k)
            /\ IF Passes(k) THEN ShadedAfter(k) ELSE DiscardedAfter(k)
      [] Calls[k].call = "depth.set" -> Preceded(k, "depth.get") /\ Passes(k - 1)
      [] Calls[k].call = "interpolate" -> Preceded(k, "depth.set")
      [] Calls[k].call = "fragment.main" -> Preceded(k, "interpolate")
      [] Calls[k].call = "target.set" -> Preceded(k, "fragment.main")

\* C19: the per-pixel protocol of draw_line.  Each visited pixel is depth
\* tested first, against the value its depth cell has then; on a pass the
\* cell is set to the computed depth, then interpolate is evaluated, then
\* the fragment program is invoked once, then target.set is called with
\* its colour, in this order and for this pixel; on a fail none of the four
\* happens and the next call is the depth test of the next pixel.  So in
\* one call the pixels written to the target are those written to the depth
\* buffer, the fragment program runs once for each of them and for no pixel
\* that failed the test, every written cell holds the depth and the colour
\* of its last pass, and every other pixel keeps its depth cell and its
\* target pixel.
C19_PixelProtocol ==
    IsTriangle =>
        /\ \A k \in 1..Len(Calls) : InProtocol(k)
        /\ last.log.gets = PixelsOf(Calls, "depth.get")
        /\ last.log.sets = PixelsOf(Calls, "depth.set")
        /\ last.log.frags = PixelsOf(Calls, "fragment.main")
        /\ last.log.writes = PixelsOf(Calls, "target.set")
        /\ PixelsOf(Calls, "interpolate") = last.log.sets
        /\ last.log.frags = last.log.sets /\ last.log.writes = last.log.sets
        /\ Subsequence(last.log.sets, last.log.gets)
        /\ \A p \in ViewportPixels :
              /\ DepthBuffer_get(depth, p[1], p[2]) = StoredBefore(p, Len(Calls) + 1)
              /\ target.data[BufferIndex(target, p[1], p[2]) + 1] = WrittenLast(p)
        /\ \A p \in SeqSet(last.log.gets) :
              (p \in SeqSet(last.log.sets)) <=>
                  FGt(DepthBuffer_get(depth, p[1], p[2]),
                      DepthBuffer_get(last.before.depth, p[1], p[2]))
        /\ \A p \in ViewportPixels \ SeqSet(last.log.sets) :
              CellsAt([depth |-> depth, target |-> target], p) = CellsAt(last.before, p)

\* A call in which some pixels passed the depth test and others failed it:
\* a depth test that failed is followed by the depth test of the next
\* pixel, one that passed by the four calls, and the target changed.
C19_Witness ==
    /\ IsTriangle /\ last.log.sets # <<>>
    /\ SeqSet(last.log.gets) \ SeqSet(last.log.sets) # {}
    /\ \E k \in 1..(Len(Calls) - 1) :
          /\ Calls[k].call = "depth.get" /\ ~Passes(k)
          /\ Calls[k + 1].call = "depth.get"
    /\ \E k \in 1..Len(Calls) :
          /\ Calls[k].call = "depth.get" /\ Passes(k)
          /\ Calls[k + 4].call = "target.set"
    /\ \E p \in SeqSet(last.log.sets) :
          CellsAt([depth |-> depth, target |-> target], p)[2] # CellsAt(last.before, p)[2]

\* The positions o are in ascending y.
AscendingY(o) == FGe(o[2].y, o[1].y) /\ FGe(o[3].y, o[2].y)

\* The orders of three things.
Orders == {<<1, 2, 3>>, <<1, 3, 2>>, <<2, 1, 3>>, <<2, 3, 1>>, <<3, 1, 2>>, <<3, 2, 1>>}

\* The flat triangles the last call rendered run from the first ordered
\* position, by the second, to the third.
RenderedInOrder(o) ==
    /\ last.log.parts # <<>>
    /\ last.log.parts[1][2] = o[1] /\ last.log.parts[1][3] = o[2]
    /\ last.log.parts[Len(last.log.parts)][4] = o[3]

\* C20: the three conditional swaps of run_fragment sort the screen
\* positions by ascending y: afterwards ordered_position_0.y <=
\* ordered_position_1.y <= ordered_position_2.y, the ordered positions are
\* the three input positions in some order, and they are what the flat
\* triangles are rendered from.
C20_SortedByY ==
    Rasterized =>
        /\ AscendingY(OrderedPositions(last.log.clippos))
        /\ \E s \in Orders : OrderedPositions(last.log.clippos) = Permuted(last.log.clippos, s)
        /\ RenderedInOrder(OrderedPositions(last.log.clippos))

\* A rasterized triangle given in descending y, which needs all three swaps.
C20_Witness ==
    /\ Rasterized /\ last.log.sets # <<>>
    /\ FGt(last.log.clippos[1].y, last.log.clippos[2].y)
    /\ FGt(last.log.clippos[2].y, last.log.clippos[3].y)

(***************************************************************************)
(* C21: the dispatch of run_fragment on the sorted positions.              *)
(***************************************************************************)
\* The sorted screen positions of the last call.
SortedPositions == OrderedPositions(last.log.clippos)

\* The long edge, top vertex to bottom vertex, at the middle vertex's y, by
\* linear interpolation in f32.
LongEdgeAt(o) ==
    FAdd(o[1].x, FMul(FDiv(FSub(o[2].y, o[1].y), FSub(o[3].y, o[1].y)),
                      FSub(o[3].x, o[1].x)))

\* The last call rendered one flat sub-triangle, of the kind the equal pair
\* of y asks for.
OneFlatPart(o) ==
    /\ Len(last.log.parts) = 1
    /\ last.log.parts[1] = <<(IF FEq(o[2].y, o[3].y) THEN "bottom_flat" ELSE "top_flat"),
                             o[1], o[2], o[3]>>

\* The last call rendered a bottom-flat part (top, middle, split) and then a
\* top-flat part (middle, split, bottom), the split on the middle vertex's
\* row and on the long edge.
TwoSplitParts(o) ==
    /\ Len(last.log.parts) = 2
    /\ \E split \in {last.log.parts[1][4]} :
          /\ last.log.parts[1] = <<"bottom_flat", o[1], o[2], split>>
          /\ last.log.parts[2] = <<"top_flat", o[2], split, o[3]>>
          /\ split.y = o[2].y
          /\ Close(split.x, LongEdgeAt(o))

\* C21: after sorting, a triangle with two equal y is rasterized as exactly
\* one flat sub-triangle (bottom-flat when the middle and bottom y are equal,
\* top-flat when the top and middle y are equal); any other as exactly two, a
\* bottom-flat one (top, middle, split) then a top-flat one (middle, split,
\* bottom), the split point at the middle vertex's y with x the linear
\* interpolation of the long edge at that y.
C21_SplitDispatch ==
    Rasterized =>
        IF FEq(SortedPositions[2].y, SortedPositions[3].y)
           \/ FEq(SortedPositions[1].y, SortedPositions[2].y)
        THEN OneFlatPart(SortedPositions)
        ELSE TwoSplitParts(SortedPositions)

(***************************************************************************)
(* SpecOff: one call of Raster::triangle on freshly constructed 4x4        *)
(* buffers, on three vertices that all lie on one side of the viewport     *)
(* (left of it, right of it, above it or below it), or all inside it.      *)
(***************************************************************************)
\* The vertices at the clip positions (nx/4, ny/4, 1, 1).
Quarters(xs, ys) == {Vertex(nx, ny, 1, 1) : nx \in xs, ny \in ys}

\* The groups of vertices: screen x of -2 and -1; screen x of 4 and 5;
\* screen y of -2 and -1; screen y of 4 and 5; and the viewport itself.
OffGroups ==
    {Quarters({-4, -3}, {1, -2}), Quarters({2, 3}, {2, -1}),
     Quarters({-1, 1}, {4, 3}), Quarters({-1, 1}, {-2, -3}),
     Quarters({-2, 1}, {2, -1})}

InitOff ==
    /\ Constructed(MeshSize)
    /\ uniform = DrawUniform

DrawOff ==
    /\ last.op = "new"
    /\ \E group \in OffGroups :
          \E v0 \in group, v1 \in group, v2 \in group : Triangle(v0, v1, v2)

NextOff == DrawOff

SpecOff == InitOff /\ [][NextOff]_vars

\* The pixels lo..hi of row y, in the order of a scan from the left.
SpanPixels(lo, hi, y) == [i \in 1..Max(0, hi - lo + 1) |-> <<lo + i - 1, y>>]

\* The clamped span of a scanline with endpoints a and b on row y.
ClampedSpan(a, b, y) ==
    SpanPixels(Max(0, Min(a, b)), Min(Target_width(target) - 1, Max(a, b)), y)

\* The pixels of the clamped spans of the scanlines, one scanline after the
\* other.
RECURSIVE ClampedSpans(_)
ClampedSpans(lines) ==
    IF lines = <<>> THEN <<>>
    ELSE ClampedSpan(lines[1][1], lines[1][2], lines[1][3]) \o ClampedSpans(Tail(lines))

\* The three screen positions of the last call lie on one side of the
\* viewport.
OutsideViewport ==
    \/ \A i \in 1..3 : FLt(last.log.clippos[i].x, F0)
    \/ \A i \in 1..3 : FGe(last.log.clippos[i].x, I32ToF32(Target_width(target)))
    \/ \A i \in 1..3 : FLt(last.log.clippos[i].y, F0)
    \/ \A i \in 1..3 : FGe(last.log.clippos[i].y, I32ToF32(Target_height(target)))

\* C22: out-of-viewport coverage is clamped, not an error: the call ends
\* without failure; the pixels it visits are those of its scanlines' clamped
\* spans, max(0, min(a, b)) <= x <= min(width - 1, max(a, b)), on rows
\* 0 <= y < height, and no other; and a triangle lying entirely outside the
\* viewport causes no fragment invocation and no buffer write.
C22_Clamped ==
    Mapped =>
        /\ ~last.log.panic
        /\ \A i \in 1..Len(last.log.lines) :
              0 <= last.log.lines[i][3] /\ last.log.lines[i][3] < Target_height(target)
        /\ last.log.gets = ClampedSpans(last.log.lines)
        /\ OutsideViewport =>
              /\ last.log.frags = <<>> /\ last.log.sets = <<>> /\ last.log.writes = <<>>
              /\ BuffersUnchanged

(***************************************************************************)
(* SpecWeights: the weights of draw_line, for three screen positions and a *)
(* point: a pixel of the 4x4 target or one of the three positions.  The    *)
(* positions are on the pixel grid near the target, or those of one of a   *)
(* few triangles far from it, where the products of edge round or          *)
(* overflow.                                                               *)
(***************************************************************************)
\* Screen positions on the pixel grid, on and off the target.
WeightPositions ==
    {Vec2(FromInt(-1), FromInt(-1)), Vec2(FromInt(-1), F0), Vec2(FromInt(2), FromInt(-1)),
     Vec2(F0, F0), Vec2(FromInt(3), F1), Vec2(F1, FromInt(3))}

\* 2^100 as a coordinate: its products overflow.
FarOff == Fin(0, Hidden, 101 - MantBits)

\* Triangles with vertices far from the target: four in the range where the
\* products of edge are exact (one of them back-facing), one where they
\* round, one where they overflow.
FarTriangles ==
    {<<Vec2(F0, F0), Vec2(FromInt(11), FromInt(1001)), Vec2(FromInt(1001), FromInt(2))>>,
     <<Vec2(F0, F0), Vec2(FromInt(1001), FromInt(2)), Vec2(FromInt(11), FromInt(1001))>>,
     <<Vec2(FromInt(3), FromInt(-1000)), Vec2(FromInt(-999), FromInt(7)),
       Vec2(FromInt(1024), FromInt(1024))>>,
     <<Vec2(FromInt(-1024), FromInt(-1024)), Vec2(FromInt(1024), FromInt(-1000)),
       Vec2(FromInt(-1000), FromInt(1024))>>,
     <<Vec2(F0, F0), Vec2(FromInt(11), FromInt(5001)), Vec2(FromInt(5001), FromInt(2))>>,
     <<Vec2(F0, F0), Vec2(F0, FarOff), Vec2(FarOff, F0)>>}

\* Vec2::new(x as f32, cur_y0 as f32) for the pixels of the target.
PixelPoints == {Vec2(I32ToF32(p[1]), I32ToF32(p[2])) : p \in ViewportPixels}

InitWeights ==
    /\ Constructed(MeshSize)
    /\ uniform = DrawUniform

\* edge and weight_0, weight_1, weight_2 of draw_line at the point p.
Weighed(c, edge, p) ==
    /\ last' = [op |-> "weights", prev |-> last.op, clippos |-> c, edge |-> edge,
                p |-> p, w |-> WeightsAt(c, edge, p)]
    /\ ops' = ops + 1
    /\ UNCHANGED <<depth, target, uniform>>

Weigh ==
    /\ last.op = "new"
    /\ \E c \in (WeightPositions \X WeightPositions \X WeightPositions) \cup FarTriangles :
          \E p \in PixelPoints \cup {c[1], c[2], c[3]} :
             Weighed(c, Raster_edge(c[1], c[2], c[3]), p)

NextWeights == Weigh

SpecWeights == InitWeights /\ [][NextWeights]_vars

\* Weights were computed with an edgeTotal that is not zero.
IsWeights == last.op = "weights" /\ ~IsZero(last.edge)

WeightSum(w) == FAdd(FAdd(w[1], w[2]), w[3])

\* The weight at the corner i is 1 at corner i and 0 at the other two.
CornerWeight(i, j) == IF i = j THEN F1 ELSE F0

\* At each corner the point lies on, the weights are exactly 1 and 0.
ExactAtCorners ==
    \A i \in 1..3 :
        last.p = last.clippos[i] => \A j \in 1..3 : FEq(last.w[j], CornerWeight(i, j))

\* C23 as stated: with edgeTotal # 0 the three weights sum to 1, and at
\* p = p_i the weight w_i is 1 and the other two are 0.
C23_WeightsSumToOne ==
    IsWeights => FEq(WeightSum(last.w), F1) /\ ExactAtCorners

\* The rounding of two divisions and two additions of f32.
SumTolerance(w) ==
    FMul(FMul(F2, Epsilon), FAdd(FAdd(FAbs(w[1]), FAbs(w[2])), FAbs(w[3])))

\* The largest magnitude of a coordinate for which every difference,
\* product and difference of products in edge is an integer below 2^24,
\* hence exact in f32.
ExactRange == Pow2((MantBits \div 2) - 2)

\* A coordinate on the pixel grid within ExactRange.
OnGrid(a) == IsFin(a) /\ FEq(FFloor(a), a) /\ ~FGt(FAbs(a), FromInt(ExactRange))

\* The three positions and the point are on the pixel grid within ExactRange.
ExactProducts ==
    \A v \in {last.p, last.clippos[1], last.clippos[2], last.clippos[3]} :
        OnGrid(v.x) /\ OnGrid(v.y)

\* The weights sum to 1 within the rounding of f32.
SumRounded == ~FGt(FAbs(FSub(WeightSum(last.w), F1)), SumTolerance(last.w))

\* C23, amended: for screen positions and a pixel with integer coordinates
\* of magnitude at most 1024 (the products of edge are then exact) and
\* edgeTotal # 0, the three weights sum to 1 within the rounding of f32
\* (2 epsilon times |w0| + |w1| + |w2|), and at p = p_i the weight w_i is
\* exactly 1 and the other two are zero.
C23_WeightsSumToOneRounded ==
    IsWeights /\ ExactProducts => SumRounded /\ ExactAtCorners

\* Weights within ExactRange, of a pixel off the three corners of a triangle
\* far from the target, whose f32 sum is not 1.
C23_Witness ==
    /\ IsWeights /\ ExactProducts
    /\ <<last.clippos[1], last.clippos[2], last.clippos[3]>> \in FarTriangles
    /\ \A i \in 1..3 : last.p # last.clippos[i]
    /\ ~FEq(WeightSum(last.w), F1)

(***************************************************************************)
(* C24: the correction target.                                             *)
(***************************************************************************)
\* clipW_i of the last call.
ClipW(i) == last.args[i].position.w

\* w0*(1/clipW_0) + w1*(1/clipW_1) + w2*(1/clipW_2)
BlendedInverseW(w) ==
    FAdd(FAdd(FMul(w[1], FDiv(F1, ClipW(1))), FMul(w[2], FDiv(F1, ClipW(2)))),
         FMul(w[3], FDiv(F1, ClipW(3))))

\* The shades of the three vertices, each divided by its clipW, blended with
\* the weights w and divided by the denominator d.
CorrectedShade(w, d) ==
    FDiv(FAdd(FAdd(FMul(w[1], FDiv(last.args[1].shade, ClipW(1))),
                   FMul(w[2], FDiv(last.args[2].shade, ClipW(2)))),
              FMul(w[3], FDiv(last.args[3].shade, ClipW(3)))), d)

\* The colour of the grey fragment program for a shade.
Grey(shade) == PackColor(Vec4(shade, shade, shade, F1))

\* The pixel p, whose fragment has the depth iw, was compared with iw and, if
\* it passed, holds iw in the depth buffer and the colour interpolated with
\* the denominator iw in the target.
CorrectedBy(p, w, iw) ==
    IF FGt(iw, DepthBuffer_get(last.before.depth, p[1], p[2]))
    THEN /\ p \in SeqSet(last.log.sets)
         /\ DepthBuffer_get(depth, p[1], p[2]) = iw
         /\ target.data[BufferIndex(target, p[1], p[2]) + 1] = Grey(CorrectedShade(w, iw))
    ELSE /\ p \notin SeqSet(last.log.sets)
         /\ DepthBuffer_get(depth, p[1], p[2])
              = DepthBuffer_get(last.before.depth, p[1], p[2])
         /\ target.data[BufferIndex(target, p[1], p[2]) + 1]
              = last.before.target.data[BufferIndex(target, p[1], p[2]) + 1]

CorrectedAt(p, w) == CorrectedBy(p, w, BlendedInverseW(w))

\* C24: one correction target.  The depth compared with and stored into the
\* depth buffer at a pixel is w0*(1/clipW_0) + w1*(1/clipW_1) +
\* w2*(1/clipW_2); the varyings are divided by the same clipW_i beforehand;
\* and that same blended 1/w, not z, is the denominator handed to
\* interpolate for the pixel.
C24_OneCorrectionTarget ==
    (Rasterized /\ ~uniform.white) =>
        \A p \in SeqSet(last.log.gets) :
            CorrectedAt(p, Weights(last.log.clippos, EdgeTotal, p[1], p[2]))

\* A triangle whose vertices differ in clipW, with clipW # z at one, that
\* stored a depth other than 1.
C24_Witness ==
    /\ Rasterized /\ ~uniform.white
    /\ ClipW(1) # ClipW(2) /\ \E i \in 1..3 : ClipW(i) # last.args[i].position.z
    /\ \E p \in SeqSet(last.log.sets) :
          /\ ~FEq(DepthBuffer_get(depth, p[1], p[2]), F1)
          /\ IsFin(DepthBuffer_get(depth, p[1], p[2]))

(***************************************************************************)
(* C25: a pixel is shaded at most once in a call.                          *)
(***************************************************************************)
\* No element of the sequence q occurs in it twice.
NoRepeat(q) == \A i \in 1..Len(q) : \A j \in 1..Len(q) : q[i] = q[j] => i = j

\* The places of p in the sequence q.
Places(q, p) == {i \in 1..Len(q) : q[i] = p}

\* C25: within one Raster::triangle call the fragment program is run, and
\* Target::set called, at most once for any pixel, also on the row of the
\* middle vertex that both halves of a split triangle scan: the second visit
\* of a pixel fails the strict comparison with the depth the first stored.
C25_ShadedAtMostOnce ==
    IsTriangle =>
        /\ NoRepeat(last.log.frags)
        /\ NoRepeat(last.log.writes)
        /\ NoRepeat(last.log.sets)

\* A split triangle with a pixel that was visited twice and shaded.
C25_Witness ==
    /\ Rasterized /\ Len(last.log.parts) = 2
    /\ \E p \in SeqSet(last.log.frags) :
          /\ Cardinality(Places(last.log.gets, p)) = 2
          /\ Cardinality(Places(last.log.writes, p)) = 1

(***************************************************************************)
(* C26: the order of two triangles without depth ties.                     *)
(***************************************************************************)
\* The triangles DrawTinted draws.
TintedTriangles ==
    {<<Tinted(MeshVertices[t[1]], shade), Tinted(MeshVertices[t[2]], shade),
       Tinted(MeshVertices[t[3]], shade)>> : t \in TieIndices, shade \in TieShades}

\* Raster::triangle of the triangle t on the buffers b.
DrawnOn(b, t) == Raster_triangle(b.depth, b.target, uniform, t[1], t[2], t[3])

\* The depth draw_line computes at pixel p for the triangle t with screen
\* positions c.
FragmentDepth(t, c, p) ==
    CalculatedDepth(Weights(c, Raster_edge(c[1], c[2], c[3]), p[1], p[2]),
                    <<FDiv(F1, t[1].position.w), FDiv(F1, t[2].position.w),
                      FDiv(F1, t[3].position.w)>>)

\* The pixels the last call and the call with the log rB both visited.
SharedPixels(rB) == SeqSet(last.log.gets) \cap SeqSet(rB.gets)

\* The last call's triangle and the triangle b differ in depth at every
\* pixel both visit.
NoTies(b, rB) ==
    \A p \in SharedPixels(rB) :
        ~FEq(FragmentDepth(last.args, last.log.clippos, p),
             FragmentDepth(b, rB.clippos, p))

\* The buffers ab hold at pixel p the depth d and the colour of buffer from.
KeptFrom(ab, from, p, d) ==
    /\ DepthBuffer_get(ab.depth, p[1], p[2]) = d
    /\ ab.target.data[BufferIndex(ab.target, p[1], p[2]) + 1]
         = from.data[BufferIndex(from, p[1], p[2]) + 1]

\* At pixel p, where the last call's fragment has depth dA and b's has depth
\* dB, the buffers ab hold the fragment of the larger depth: the last
\* call's, as the target holds it, or b's, as b alone left it in rB.
LargerKept(ab, rB, p, dA, dB) ==
    IF FGt(dA, dB) \/ IsNaN(dB)
    THEN KeptFrom(ab, target, p, dA)
    ELSE KeptFrom(ab, rB.target, p, dB)

\* The last call's triangle first and b second, ab, leaves the buffers b
\* first and the last call's triangle second, ba, leaves; and at each shared
\* pixel where one of the two passes when drawn first, the fragment of the
\* larger depth.
SameEitherWay(b, rB, ab, ba) ==
    /\ ab.depth = ba.depth
    /\ ab.target = ba.target
    /\ \A p \in SharedPixels(rB) :
          (p \in SeqSet(last.log.sets) \/ p \in SeqSet(rB.sets)) =>
              LargerKept(ab, rB, p, FragmentDepth(last.args, last.log.clippos, p),
                         FragmentDepth(b, rB.clippos, p))

\* The two orders of the last call's triangle and b, from the buffers the
\* last call started on; rB is b drawn first.
OrdersAgree(b, rB) ==
    (rB.stage = "rasterized" /\ NoTies(b, rB)) =>
        SameEitherWay(b, rB, DrawnOn([depth |-> depth, target |-> target], b),
                      DrawnOn(rB, last.args))

\* C26: two triangles whose depths differ at every pixel both cover leave
\* the same depth buffer and target in either order of submission, and at
\* each shared pixel where either passes, the fragment of the larger depth
\* (the larger interpolated 1/w) is the one kept.
C26_OrderIndependent ==
    Rasterized => \A b \in TintedTriangles : OrdersAgree(b, DrawnOn(last.before, b))

\* Two triangles without ties where both pass at a shared pixel when drawn
\* first, the second of them behind the first there.
C26_Witness ==
    /\ Rasterized
    /\ \E b \in TintedTriangles :
          /\ DrawnOn(last.before, b).stage = "rasterized"
          /\ NoTies(b, DrawnOn(last.before, b))
          /\ \E p \in SeqSet(last.log.sets) \cap SeqSet(DrawnOn(last.before, b).sets) :
                FGt(FragmentDepth(last.args, last.log.clippos, p),
                    FragmentDepth(b, DrawnOn(last.before, b).clippos, p))

(***************************************************************************)
(* C27: depth cells only grow under Raster::triangle.                      *)
(***************************************************************************)
\* The cell of pixel p is as it was, or holds a strictly greater value, and
\* is as it was if no scanline of the call visited p.
CellGrown(p, visited) ==
    /\ \/ DepthBuffer_get(depth', p[1], p[2]) = DepthBuffer_get(depth, p[1], p[2])
       \/ FGt(DepthBuffer_get(depth', p[1], p[2]), DepthBuffer_get(depth, p[1], p[2]))
    /\ p \notin visited =>
          DepthBuffer_get(depth', p[1], p[2]) = DepthBuffer_get(depth, p[1], p[2])

\* C27: over any sequence of Raster::triangle calls without a clear, the
\* value of a depth cell never decreases: a call overwrites a cell only with
\* a value strictly greater than the one it held, and leaves the cells its
\* scanlines do not cover as they were.
C27_DepthNeverDecreases ==
    [][last'.op = "triangle" =>
          \A p \in ViewportPixels : CellGrown(p, SeqSet(last'.log.gets))]_vars

\* A call that raised a cell an earlier call had stored a depth in, and left
\* another cell alone.
C27_Witness ==
    /\ Rasterized /\ last.prev = "triangle"
    /\ \E p \in SeqSet(last.log.sets) :
          /\ FGt(DepthBuffer_get(last.before.depth, p[1], p[2]), F0)
          /\ FGt(DepthBuffer_get(depth, p[1], p[2]),
                 DepthBuffer_get(last.before.depth, p[1], p[2]))
    /\ \E p \in ViewportPixels : p \notin SeqSet(last.log.gets)

(***************************************************************************)
(* C28: the depth buffer's cells under the target's bounds.                *)
(***************************************************************************)
\* The pixels the last call passed to DepthBuffer::get or DepthBuffer::set.
DepthAccessed == SeqSet(last.log.gets) \cup SeqSet(last.log.sets)

\* The flat index of pixel p is in range and is the index of no other pixel:
\* it decodes to p by the target's width.
OwnCell(p, i) ==
    /\ 0 <= i /\ i < Target_width(target) * Target_height(target)
    /\ i < Len(depth.data)
    /\ i % Target_width(target) = p[1]
    /\ i \div Target_width(target) = p[2]

\* The last call's triangle drawn with a depth buffer one column wider and
\* one row higher than the target.
OnLargerDepth ==
    Raster_triangle(DepthBuffer_new(Target_width(target) + 1, Target_height(target) + 1),
                    last.before.target, uniform,
                    last.args[1], last.args[2], last.args[3])

\* C28: Raster::triangle bounds the pixels by the target's width and height
\* alone, never by the depth buffer's: the scanlines and the pixels visited
\* are the same with a depth buffer of other dimensions.  With a depth buffer
\* constructed with the target's width and height, every flat index
\* x + y*width it accesses is below width*height and is the cell of that
\* (x, y): no access out of range, no two pixels on one cell.
C28_DepthIndexInRange ==
    (/\ IsTriangle
     /\ depth.width = Target_width(target) /\ depth.height = Target_height(target))
    => /\ ~last.log.panic
       /\ \A p \in DepthAccessed : OwnCell(p, DepthIndex(depth, p[1], p[2]))
       /\ \A p \in DepthAccessed : \A q \in DepthAccessed :
             DepthIndex(depth, p[1], p[2]) = DepthIndex(depth, q[1], q[2]) => p = q
       /\ last.before.depth = DepthBuffer_new(depth.width, depth.height) =>
             /\ OnLargerDepth.lines = last.log.lines
             /\ OnLargerDepth.gets = last.log.gets
             /\ OnLargerDepth.sets = last.log.sets

\* A triangle with a vertex off a 3x2 target that reached the last cell of
\* the depth buffer and a cell of the second row's first column.
C28_Witness ==
    /\ Rasterized /\ Target_width(target) = 3 /\ Target_height(target) = 2
    /\ \E i \in 1..3 : OffTarget(last.log.clippos[i])
    /\ <<2, 1>> \in SeqSet(last.log.sets)
    /\ <<0, 1>> \in SeqSet(last.log.sets)

(***************************************************************************)
(* black-math: Ray::intersect_box (ray.rs).  A ray is [position,           *)
(* direction] and a box [min, max], all Vec3; the result is an Option<f32>.*)
(***************************************************************************)
None == [some |-> FALSE]

Some(t) == [some |-> TRUE, value |-> t]

Ray_new(position, direction) == [position |-> position, direction |-> direction]

\* The literal 1E-06 as an f32.
AxisParallel == Fin(0, 8796093, -43)

\* The locals max_value and result of intersect_box, and whether it has
\* returned None.
BoxLocals(result, max_value) == [none |-> FALSE, result |-> result, max_value |-> max_value]

BoxMissed == [none |-> TRUE, result |-> F0, max_value |-> F0]

\* if result > max_value { return None; }
SlabChecked(result, max_value) ==
    IF FGt(result, max_value) THEN BoxMissed ELSE BoxLocals(result, max_value)

\* The if branch of an axis: the ray runs along the slab.
AlongSlab(st, p, lo, hi) == IF FLt(p, lo) \/ FGt(p, hi) THEN BoxMissed ELSE st

\* n1 and n2 of an axis, after the swap.
SlabTimes(n1, n2) == IF FGt(n1, n2) THEN <<n2, n1>> ELSE <<n1, n2>>

\* result = if n1 > result { n1 } else { result }
SlabEntered(result, n1) == IF FGt(n1, result) THEN n1 ELSE result

\* The else branch of the x axis, n1 <= n2 and result the new result:
\* max_value = if n2 < result { n2 } else { result }
SlabLeftX(result, n2) == SlabChecked(result, IF FLt(n2, result) THEN n2 ELSE result)

\* The else branch of the y and z axes:
\* max_value = if n2 < max_value { n2 } else { max_value }
SlabLeft(result, max_value, n2) ==
    SlabChecked(result, IF FLt(n2, max_value) THEN n2 ELSE max_value)

\* n1 and n2 of an axis before the swap, n0 = 1.0 / direction.
SlabRaw(p, n0, lo, hi) == SlabTimes(FMul(FSub(lo, p), n0), FMul(FSub(hi, p), n0))

AcrossX(st, n) == SlabLeftX(SlabEntered(st.result, n[1]), n[2])

Across(st, n) == SlabLeft(SlabEntered(st.result, n[1]), st.max_value, n[2])

\* The block of the x axis.
BoxAxisX(st, p, d, lo, hi) ==
    IF FLt(FAbs(d), AxisParallel) THEN AlongSlab(st, p, lo, hi)
    ELSE AcrossX(st, SlabRaw(p, FDiv(F1, d), lo, hi))

\* The block of the y axis, and of the z axis.
BoxAxis(st, p, d, lo, hi) ==
    IF st.none THEN st
    ELSE IF FLt(FAbs(d), AxisParallel) THEN AlongSlab(st, p, lo, hi)
    ELSE Across(st, SlabRaw(p, FDiv(F1, d), lo, hi))

BoxReturned(st) == IF st.none THEN None ELSE Some(st.result)

Ray_intersect_box(r0, b0) ==
    BoxReturned(
        BoxAxis(
            BoxAxis(
                BoxAxisX(BoxLocals(F0, F32Max), r0.position.x, r0.direction.x,
                         b0.min.x, b0.max.x),
                r0.position.y, r0.direction.y, b0.min.y, b0.max.y),
            r0.position.z, r0.direction.z, b0.min.z, b0.max.z))

(***************************************************************************)
(* SpecRay: Ray::intersect_box on rays from grid points around and inside  *)
(* a box, in the 26 directions of the grid and along longer steps.         *)
(***************************************************************************)
RayCoordinates == {-1, 1, 3}

RaySteps == {-2, -1, 0, 1}

Grid3(s) == {Vec3(FromInt(x), FromInt(y), FromInt(z)) : x \in s, y \in s, z \in s}

Boxes == {[min |-> Vec3(F0, F0, F0), max |-> Vec3(F2, F2, F2)],
          [min |-> Vec3(FromInt(-1), F0, F1), max |-> Vec3(F1, FromInt(3), F2)]}

InitRay ==
    /\ Constructed(MeshSize)
    /\ uniform = DrawUniform

IntersectBox ==
    /\ last.op = "new"
    /\ \E position \in Grid3(RayCoordinates), direction \in Grid3(RaySteps), b0 \in Boxes :
          last' = [op |-> "intersect_box", prev |-> last.op,
                   r0 |-> Ray_new(position, direction), b0 |-> b0,
                   result |-> Ray_intersect_box(Ray_new(position, direction), b0)]
    /\ ops' = ops + 1
    /\ UNCHANGED <<depth, target, uniform>>

NextRay == IntersectBox

SpecRay == InitRay /\ [][NextRay]_vars

\* The parameters at which a ray at p moving by d is in the slab lo..hi, as
\* <<entry, exit>>: all of them if the ray runs along the slab inside it,
\* none if it runs along it outside.
SlabInterval(p, d, lo, hi) ==
    IF FLt(FAbs(d), AxisParallel)
    THEN (IF FLt(p, lo) \/ FGt(p, hi) THEN <<Inf(0), Inf(1)>> ELSE <<Inf(1), Inf(0)>>)
    ELSE IF FGt(d, F0) THEN <<FDiv(FSub(lo, p), d), FDiv(FSub(hi, p), d)>>
    ELSE <<FDiv(FSub(hi, p), d), FDiv(FSub(lo, p), d)>>

FMax(a, b) == IF FGt(a, b) THEN a ELSE b

FMin(a, b) == IF FLt(a, b) THEN a ELSE b

\* Some(t), t the largest entry and at least 0, when the three intervals
\* ix, iy, iz share a parameter that is not negative; None otherwise.
SlabTest(ix, iy, iz) ==
    IF FGt(FMax(F0, FMax(ix[1], FMax(iy[1], iz[1]))), FMin(ix[2], FMin(iy[2], iz[2])))
    THEN None
    ELSE Some(FMax(F0, FMax(ix[1], FMax(iy[1], iz[1]))))

\* Two results are the same: both None, or both Some of equal values.
SameOption(a, b) == a.some = b.some /\ (a.some => FEq(a.value, b.value))

IsIntersectBox == last.op = "intersect_box"

\* C29: Ray::intersect_box is the slab test, the same on the three axes: it
\* returns Some(t), t the largest of the entry distances of the x, y and z
\* slabs and at least 0, whenever the ray's parameter intervals for the three
\* slabs share a parameter that is not negative, and None otherwise; a ray
\* that enters the y or z slab after the x slab but before it leaves the x
\* slab is a hit.
C29_SlabTest ==
    IsIntersectBox =>
        SameOption(last.result,
                   SlabTest(SlabInterval(last.r0.position.x, last.r0.direction.x,
                                         last.b0.min.x, last.b0.max.x),
                            SlabInterval(last.r0.position.y, last.r0.direction.y,
                                         last.b0.min.y, last.b0.max.y),
                            SlabInterval(last.r0.position.z, last.r0.direction.z,
                                         last.b0.min.z, last.b0.max.z)))

(***************************************************************************)
(* Frustum::new (black-math).  A Vec is [data, capacity]: data the         *)
(* elements it holds, its length Len(data); the capacity is storage        *)
(* reserved for elements that are not there yet.  A result of Frustum::new *)
(* is [ok |-> TRUE] with the planes and the corners, or Panic(message).    *)
(***************************************************************************)
\* The next digit of a square root: q the root so far, r the remainder, pair
\* the next two bits of the radicand.
SqrtDigit(q, r, pair) ==
    IF 4 * r + pair >= 4 * q + 1
    THEN <<2 * q + 1, 4 * r + pair - (4 * q + 1)>>
    ELSE <<2 * q, 4 * r + pair>>

\* <<root, remainder>> of m * 4^zeros, digit by digit: qr the root and the
\* remainder so far, pairs the pairs of bits of m still to read.
RECURSIVE SqrtDigits(_, _, _, _)
SqrtDigits(qr, m, pairs, zeros) ==
    IF pairs > 0
    THEN SqrtDigits(SqrtDigit(qr[1], qr[2], (m \div Pow2(2 * (pairs - 1))) % 4),
                    m, pairs - 1, zeros)
    ELSE IF zeros > 0
    THEN SqrtDigits(SqrtDigit(qr[1], qr[2], 0), m, 0, zeros - 1)
    ELSE qr

\* The pairs of bits of a mantissa that has an even exponent: a mantissa of
\* MantBits bits, doubled when its exponent is odd.
SqrtPairs == (MantBits + 2) \div 2

\* The pairs of zero bits the mantissa is extended by, for a root of
\* MantBits bits, a guard bit and two more.
SqrtZeros == MantBits + 3 - SqrtPairs

\* The root of m * 2^e, e even, rounded.
FSqrtEven(m, e) ==
    LET qr == SqrtDigits(<<0, 0>>, m, SqrtPairs, SqrtZeros)
    IN RoundPack(0, qr[1], (e \div 2) - SqrtZeros, qr[2] # 0)

\* The root of a normalized finite value.
FSqrtNormal(x) ==
    IF x.e % 2 = 0 THEN FSqrtEven(x.m, x.e) ELSE FSqrtEven(2 * x.m, x.e - 1)

\* f32::sqrt.
FSqrt(a) ==
    IF IsNaN(a) THEN NaN
    ELSE IF IsZero(a) THEN a
    ELSE IF a.s = 1 THEN NaN
    ELSE IF IsInf(a) THEN a
    ELSE FSqrtNormal(Normalized(a))

Vec3_add(v0, v1) == Vec3(FAdd(v0.x, v1.x), FAdd(v0.y, v1.y), FAdd(v0.z, v1.z))

Vec3_scale(v0, s) == Vec3(FMul(v0.x, s), FMul(v0.y, s), FMul(v0.z, s))

Vec3_length_sq(v0) ==
    FAdd(FAdd(FMul(v0.x, v0.x), FMul(v0.y, v0.y)), FMul(v0.z, v0.z))

Vec3_length(v0) == FSqrt(Vec3_length_sq(v0))

Vec3_dot(v0, v1) ==
    FAdd(FAdd(FMul(v0.x, v1.x), FMul(v0.y, v1.y)), FMul(v0.z, v1.z))

Vec3_cross(v0, v1) ==
    Vec3(FSub(FMul(v0.y, v1.z), FMul(v0.z, v1.y)),
         FSub(FMul(v0.z, v1.x), FMul(v0.x, v1.z)),
         FSub(FMul(v0.x, v1.y), FMul(v0.y, v1.x)))

Plane_new(a, b, c, d) == [a |-> a, b |-> b, c |-> c, d |-> d]

Plane_normal(p0) == Vec3(p0.a, p0.b, p0.c)

\* compute_intersection_ray from v0, the cross product of the two normals,
\* and v3, the sum of the scaled normals.
IntersectionRayOf(v0, num, v4) ==
    Ray_new(Vec3(FDiv(v4.x, num), FDiv(v4.y, num), FDiv(v4.z, num)), v0)

IntersectionRayAlong(v0, v3) ==
    IntersectionRayOf(v0, Vec3_length_sq(v0), Vec3_cross(v3, v0))

compute_intersection_ray(p0, p1) ==
    IntersectionRayAlong(Vec3_cross(Plane_normal(p0), Plane_normal(p1)),
                         Vec3_add(Vec3_scale(Plane_normal(p1), FNeg(p0.d)),
                                  Vec3_scale(Plane_normal(p0), p1.d)))

compute_intersection_vector(plane, ray) ==
    Vec3_add(ray.position,
             Vec3_scale(ray.direction,
                        FDiv(FSub(FNeg(plane.d),
                                  Vec3_dot(Plane_normal(plane), ray.position)),
                             Vec3_dot(Plane_normal(plane), ray.direction))))

Mat4_zero ==
    [m11 |-> F0, m12 |-> F0, m13 |-> F0, m14 |-> F0,
     m21 |-> F0, m22 |-> F0, m23 |-> F0, m24 |-> F0,
     m31 |-> F0, m32 |-> F0, m33 |-> F0, m34 |-> F0,
     m41 |-> F0, m42 |-> F0, m43 |-> F0, m44 |-> F0]

Mat4_perspective(width, height, near, far) ==
    [Mat4_zero EXCEPT !.m11 = FDiv(FMul(F2, near), width),
                      !.m22 = FDiv(FMul(F2, near), height),
                      !.m33 = FDiv(far, FSub(near, far)),
                      !.m34 = FNeg(F1),
                      !.m43 = FDiv(FMul(near, far), FSub(near, far))]

\* The planes Frustum::new reads from m0: near, far, left, right, top, bottom.
FrustumPlanes(m0) ==
    << Plane_new(FNeg(m0.m13), FNeg(m0.m23), FNeg(m0.m33), FNeg(m0.m43)),
       Plane_new(FAdd(FNeg(m0.m14), m0.m13), FAdd(FNeg(m0.m24), m0.m23),
                 FAdd(FNeg(m0.m34), m0.m33), FAdd(FNeg(m0.m44), m0.m43)),
       Plane_new(FSub(FNeg(m0.m14), m0.m11), FSub(FNeg(m0.m24), m0.m21),
                 FSub(FNeg(m0.m34), m0.m31), FSub(FNeg(m0.m44), m0.m41)),
       Plane_new(FAdd(FNeg(m0.m14), m0.m11), FAdd(FNeg(m0.m24), m0.m21),
                 FAdd(FNeg(m0.m34), m0.m31), FAdd(FNeg(m0.m44), m0.m41)),
       Plane_new(FAdd(FNeg(m0.m14), m0.m12), FAdd(FNeg(m0.m24), m0.m22),
                 FAdd(FNeg(m0.m34), m0.m32), FAdd(FNeg(m0.m44), m0.m42)),
       Plane_new(FSub(FNeg(m0.m14), m0.m12), FSub(FNeg(m0.m24), m0.m22),
                 FSub(FNeg(m0.m34), m0.m32), FSub(FNeg(m0.m44), m0.m42)) >>

\* A plane with its four fields divided by len.
PlaneOver(plane, len) ==
    Plane_new(FDiv(plane.a, len), FDiv(plane.b, len),
              FDiv(plane.c, len), FDiv(plane.d, len))

\* The loop over planes.iter_mut().
NormalisedPlanes(planes) ==
    [i \in 1..Len(planes) |->
        PlaneOver(planes[i], Vec3_length(Plane_normal(planes[i])))]

Vec_with_capacity(capacity) == [data |-> <<>>, capacity |-> capacity]

\* v[index] = value: an index that is not below the length panics.
Vec_index_mut(v, index, value) ==
    IF index < Len(v.data)
    THEN [ok |-> TRUE, vec |-> [v EXCEPT !.data[index + 1] = value]]
    ELSE Panic("index out of bounds")

\* The capacity Frustum::new asks for.
CornerCapacity == 8

\* The assignments to corners in the order of the code: the planes (from 0)
\* whose intersection is the ray, the plane the ray is cut by, the index.
CornerAssignments ==
    << [p0 |-> 0, p1 |-> 2, plane |-> 4, index |-> 0],
       [p0 |-> 0, p1 |-> 2, plane |-> 5, index |-> 3],
       [p0 |-> 3, p1 |-> 0, plane |-> 4, index |-> 1],
       [p0 |-> 3, p1 |-> 0, plane |-> 5, index |-> 2],
       [p0 |-> 2, p1 |-> 1, plane |-> 4, index |-> 4],
       [p0 |-> 2, p1 |-> 1, plane |-> 5, index |-> 7],
       [p0 |-> 1, p1 |-> 3, plane |-> 4, index |-> 5],
       [p0 |-> 1, p1 |-> 3, plane |-> 5, index |-> 6] >>

\* One assignment: the value is computed, then the element is indexed.
CornerAssigned(planes, corners, a) ==
    Vec_index_mut(corners, a.index,
                  compute_intersection_vector(
                      planes[a.plane + 1],
                      compute_intersection_ray(planes[a.p0 + 1], planes[a.p1 + 1])))

\* The assignments from the k-th on; the first to panic ends them.
RECURSIVE AssignCorners(_, _, _)
AssignCorners(planes, assigned, k) ==
    IF ~assigned.ok \/ k > Len(CornerAssignments) THEN assigned
    ELSE AssignCorners(planes,
                       CornerAssigned(planes, assigned.vec, CornerAssignments[k]),
                       k + 1)

\* The Frustum built from the planes and the assigned corners.
FrustumOf(planes, assigned) ==
    IF ~assigned.ok THEN assigned
    ELSE [ok |-> TRUE,
          near |-> planes[1], far |-> planes[2], left |-> planes[3],
          right |-> planes[4], top |-> planes[5], bottom |-> planes[6],
          corners |-> assigned.vec.data]

FrustumWith(planes) ==
    FrustumOf(planes,
              AssignCorners(planes,
                            [ok |-> TRUE, vec |-> Vec_with_capacity(CornerCapacity)],
                            1))

Frustum_new(m0) == FrustumWith(NormalisedPlanes(FrustumPlanes(m0)))

\* The projections Frustum::new is given: Mat4::perspective of a view
\* volume width x height at near, ending at far.
ViewSizes == {1, 2, 3, 4}

NearPlanes == {1, 2}

FarPlanes == {3, 4, 10, 100}

Projections ==
    {Mat4_perspective(FromInt(width), FromInt(height), FromInt(near), FromInt(far)) :
        width \in ViewSizes, height \in ViewSizes, near \in NearPlanes, far \in FarPlanes}

InitFrustum ==
    /\ Constructed(MeshSize)
    /\ uniform = DrawUniform

FrustumNew ==
    /\ last.op = "new"
    /\ \E m0 \in Projections :
          last' = [op |-> "frustum_new", prev |-> last.op, m0 |-> m0,
                   planes |-> NormalisedPlanes(FrustumPlanes(m0)),
                   result |-> Frustum_new(m0)]
    /\ ops' = ops + 1
    /\ UNCHANGED <<depth, target, uniform>>

NextFrustum == FrustumNew

SpecFrustum == InitFrustum /\ [][NextFrustum]_vars

IsFrustumNew == last.op = "frustum_new"

\* The length of the normal of a plane is 1 up to the rounding of the
\* division and of the root.
UnitNormal(plane) ==
    FLt(FAbs(FSub(Vec3_length(Plane_normal(plane)), F1)), FMul(FromInt(4), Epsilon))

FrustumResultPlanes(f) == <<f.near, f.far, f.left, f.right, f.top, f.bottom>>

\* C30: Frustum::new(m) returns normally for a projection matrix m: it does
\* not fail on indexing the corners list, the six planes of the Frustum it
\* returns are normalised, and its corners list holds exactly 8 points.
C30_ReturnsEightCorners ==
    IsFrustumNew =>
        /\ last.result.ok
        /\ Len(last.result.corners) = CornerCapacity
        /\ \A i \in 1..6 : UnitNormal(FrustumResultPlanes(last.result)[i])
=============================================================================
